---------------------------- MODULE Spec2Model ----------------------------
(***************************************************************************)
(* Model of the vault backend's state-mirroring pipeline: the event codec  *)
(* (indexer/event_decoder.rs), the indexer (indexer/vault_indexer.rs,      *)
(* indexer/process_transaction.rs), the ledger store (db/*.rs) and the     *)
(* reconciliation worker (reconciliation/*.rs).                            *)
(*                                                                         *)
(* The relational store is the shared state.  Every sqlx statement the     *)
(* indexer awaits is one atomic step (the statements run on the pool, in   *)
(* autocommit, with a suspension point at each .await); apply_transfer is  *)
(* the one helper that opens a database transaction, so its two UPDATEs    *)
(* are one step.                                                           *)
(***************************************************************************)
EXTENDS Integers, Sequences, FiniteSets, TLC

(***************************************************************************)
(* Bounds of the model.                                                    *)
(***************************************************************************)
MaxSigs == 3
MaxLogs == 2
MaxLines == 3
MaxAmount == 1
MaxFaults == 1
ConcLines == 2
WideLines == 2
MaxRuns == 3
ReconLines == 1
MaxPasses == 2

(***************************************************************************)
(* Keys.  A Pubkey is modelled by a name; its to_string()/parse() pair is  *)
(* a bijection on valid keys, and every key the codec hands on comes from  *)
(* Pubkey::to_string().                                                    *)
(***************************************************************************)
Users == {"u1", "u2"}
PROGRAM_ID == "program"
MINT == "mint"
ADMIN == "admin"

\* find_program_address(["vault", user], program_id): a deterministic
\* function of its seeds and the program key.
derive_vault_pda(user) == <<"vault", user, PROGRAM_ID>>

Pdas == {derive_vault_pda(u) : u \in Users}
NoKey == <<"none", "none", "none">>

Amounts == 1..MaxAmount

(***************************************************************************)
(* Integer widths.  The events carry u64 amounts, the store holds BIGINT   *)
(* (i64).  The model keeps both widths, scaled down to IntBits bits.       *)
(***************************************************************************)
IntBits == 6
I64_MAX == (2 ^ (IntBits - 1)) - 1
I64_MIN == -(2 ^ (IntBits - 1))

\* `x as i64` for a u64 x: two's-complement reinterpretation.
AsI64(x) == IF x > I64_MAX THEN x - 2 ^ IntBits ELSE x

\* A BIGINT expression out of range makes the statement fail
\* ("bigint out of range").
InI64(x) == x >= I64_MIN /\ x =< I64_MAX

(***************************************************************************)
(* Times.  DateTime values are unix seconds; NowTs stands for a reading of *)
(* the wall clock (now() in SQL, Utc::now() in Rust).                      *)
(***************************************************************************)
NowTs == -1
\* Option<i64>::None of tx.block_time.
NoTime == -2
\* DateTime::from_timestamp(t, 0).unwrap_or_else(Utc::now): the clock reading
\* replaces a timestamp outside the representable range.
TS_MAX == 2 ^ (IntBits - 2)
from_timestamp(t) == IF t >= 0 /\ t =< TS_MAX THEN t ELSE NowTs

(***************************************************************************)
(* Decoded events (indexer/event_decoder.rs, enum VaultEvent).  All events *)
(* share one record shape; a field an event does not have holds NoKey / 0. *)
(***************************************************************************)
Ev(type, vault, user, to, amount, new_balance, timestamp) ==
    [type |-> type, vault |-> vault, user |-> user, to |-> to,
     amount |-> amount, new_balance |-> new_balance, timestamp |-> timestamp]

VaultAuthorityInitialized == Ev("VaultAuthorityInitialized", NoKey, ADMIN, NoKey, 0, 0, 0)
ProgramAuthorized == Ev("ProgramAuthorized", NoKey, PROGRAM_ID, NoKey, 0, 0, 0)
VaultInitialized(owner, ts) == Ev("VaultInitialized", derive_vault_pda(owner), owner, NoKey, 0, 0, ts)
Deposit(user, amount, nb, ts) == Ev("Deposit", NoKey, user, NoKey, amount, nb, ts)
Withdraw(user, amount) == Ev("Withdraw", derive_vault_pda(user), user, NoKey, amount, 0, 0)
Lock(vault, amount) == Ev("Lock", vault, "", NoKey, amount, 0, 0)
Unlock(vault, amount) == Ev("Unlock", vault, "", NoKey, amount, 0, 0)
Transfer(from, to, amount) == Ev("Transfer", from, "", to, amount, 0, 0)

NoEvent == Ev("none", NoKey, "", NoKey, 0, 0, 0)

BalanceTypes == {"VaultInitialized", "Deposit", "Withdraw", "Lock", "Unlock", "Transfer"}

\* The u64 amounts the chain's events carry: part of the network's state.
VARIABLE amounts

\* The events the on-chain program can emit in a transaction executed at
\* time ts.
EventsAt(ts) ==
    {VaultAuthorityInitialized, ProgramAuthorized}
    \cup {VaultInitialized(u, ts) : u \in Users}
    \cup {Deposit(u, a, nb, ts) : u \in Users, a \in amounts, nb \in amounts}
    \cup {Withdraw(u, a) : u \in Users, a \in amounts}
    \cup {Lock(v, a) : v \in Pdas, a \in amounts}
    \cup {Unlock(v, a) : v \in Pdas, a \in amounts}
    \cup UNION {{Transfer(f, t, a) : t \in Pdas \ {f}, a \in amounts} : f \in Pdas}

(***************************************************************************)
(* Log lines of a confirmed transaction.  kind says what the line is:      *)
(*   "plain"     no "Program log: " prefix                                 *)
(*   "text"      prefixed, payload not in the base64 alphabet / not base64 *)
(*   "short"     base64 of fewer than 8 bytes                              *)
(*   "unknown"   8 bytes or more, discriminator not in the table           *)
(*   "event"     known discriminator, payload deserializes to ev           *)
(*   "malformed" known discriminator, payload does not deserialize         *)
(***************************************************************************)
Line(kind, ev) == [kind |-> kind, ev |-> ev]

\* parse_event: Ok(None), Ok(Some(ev)) or Err.
parse_event(line) ==
    CASE line.kind = "short" -> [ok |-> TRUE, some |-> FALSE, ev |-> NoEvent]
      [] line.kind = "event" -> [ok |-> TRUE, some |-> TRUE, ev |-> line.ev]
      [] line.kind = "malformed" -> [ok |-> FALSE, some |-> FALSE, ev |-> NoEvent]
      [] OTHER -> [ok |-> TRUE, some |-> FALSE, ev |-> NoEvent]

\* decode_events: the events of the log in log order, or Err as soon as one
\* line fails to parse.  Lines without the prefix or not base64 are skipped.
RECURSIVE decode_lines(_, _)
decode_lines(logs, events) ==
    IF logs = <<>> THEN [ok |-> TRUE, events |-> events]
    ELSE LET line == Head(logs)
             r == parse_event(line)
         IN IF line.kind \in {"plain", "text"}
            THEN decode_lines(Tail(logs), events)
            ELSE IF ~r.ok THEN [ok |-> FALSE, events |-> <<>>]
                 ELSE decode_lines(Tail(logs),
                                   IF r.some THEN Append(events, r.ev) ELSE events)

\* A decoder that drops a line it cannot parse instead of failing.
decode_events_lenient(tx) ==
    [ok |-> TRUE,
     events |-> [i \in 1..Len(SelectSeq(tx.logs, LAMBDA l : l.kind = "event")) |->
                    SelectSeq(tx.logs, LAMBDA l : l.kind = "event")[i].ev]]

decode_events(tx) == decode_lines(tx.logs, <<>>)

(***************************************************************************)
(* Ledger store: pure effect of each statement on the vaults table, a      *)
(* function from the PDAs that have a row to the row.                      *)
(***************************************************************************)
VaultRow(owner, total, locked, available, deposited, withdrawn, created, synced) ==
    [program_id |-> "", network |-> "localnet", owner_pubkey |-> owner,
     mint |-> MINT, vault_token_account |-> "",
     total_balance |-> total, locked_balance |-> locked,
     available_balance |-> available, total_deposited |-> deposited,
     total_withdrawn |-> withdrawn, created_at |-> created,
     last_synced_at |-> synced]

\* An upsert that replaces the whole row.
upsert_vault_replacing(vs, pda, row) ==
    [p \in DOMAIN vs \cup {pda} |-> IF p = pda THEN row ELSE vs[p]]

\* INSERT ... ON CONFLICT (vault_pda) DO UPDATE SET the five amounts and
\* last_synced_at.
upsert_vault(vs, pda, row) ==
    IF pda \in DOMAIN vs
    THEN [vs EXCEPT ![pda] =
            [@ EXCEPT !.total_balance = row.total_balance,
                      !.locked_balance = row.locked_balance,
                      !.available_balance = row.available_balance,
                      !.total_deposited = row.total_deposited,
                      !.total_withdrawn = row.total_withdrawn,
                      !.last_synced_at = row.last_synced_at]]
    ELSE [p \in DOMAIN vs \cup {pda} |-> IF p = pda THEN row ELSE vs[p]]

insert_new_vault(vs, pda, owner, timestamp) ==
    LET created_at == from_timestamp(timestamp)
    IN upsert_vault(vs, pda, VaultRow(owner, 0, 0, 0, 0, 0, created_at, created_at))

\* A balance update written as an upsert: it inserts the row it does not
\* find.
set_balance_or_insert(vs, pda, new_total_balance, timestamp) ==
    IF pda \in DOMAIN vs
    THEN [vs EXCEPT ![pda] =
            [@ EXCEPT !.total_balance = new_total_balance,
                      !.available_balance = new_total_balance,
                      !.last_synced_at = from_timestamp(timestamp)]]
    ELSE [p \in DOMAIN vs \cup {pda} |->
            IF p = pda
            THEN VaultRow("", new_total_balance, 0, new_total_balance, 0, 0,
                          from_timestamp(timestamp), from_timestamp(timestamp))
            ELSE vs[p]]

\* UPDATE ... WHERE vault_pda = $1: no row, no change.
set_balance_from_event(vs, pda, new_total_balance, timestamp) ==
    IF pda \notin DOMAIN vs THEN vs
    ELSE [vs EXCEPT ![pda] =
            [@ EXCEPT !.total_balance = new_total_balance,
                      !.available_balance = new_total_balance,
                      !.last_synced_at = from_timestamp(timestamp)]]

apply_withdraw(vs, pda, amount) ==
    IF pda \notin DOMAIN vs THEN vs
    ELSE [vs EXCEPT ![pda] =
            [@ EXCEPT !.total_balance = @ - amount,
                      !.available_balance = @ - amount,
                      !.total_withdrawn = @ + amount,
                      !.last_synced_at = NowTs]]

apply_lock(vs, pda, amount) ==
    IF pda \notin DOMAIN vs THEN vs
    ELSE [vs EXCEPT ![pda] =
            [@ EXCEPT !.available_balance = @ - amount,
                      !.locked_balance = @ + amount,
                      !.last_synced_at = NowTs]]

\* An unlock that credits available_balance and leaves locked_balance.
apply_unlock_available_only(vs, pda, amount) ==
    IF pda \notin DOMAIN vs THEN vs
    ELSE [vs EXCEPT ![pda] =
            [@ EXCEPT !.available_balance = @ + amount,
                      !.last_synced_at = NowTs]]

apply_unlock(vs, pda, amount) ==
    IF pda \notin DOMAIN vs THEN vs
    ELSE [vs EXCEPT ![pda] =
            [@ EXCEPT !.available_balance = @ + amount,
                      !.locked_balance = @ - amount,
                      !.last_synced_at = NowTs]]

Debit(vs, pda, amount) ==
    IF pda \notin DOMAIN vs THEN vs
    ELSE [vs EXCEPT ![pda] =
            [@ EXCEPT !.total_balance = @ - amount,
                      !.available_balance = @ - amount,
                      !.last_synced_at = NowTs]]

Credit(vs, pda, amount) ==
    IF pda \notin DOMAIN vs THEN vs
    ELSE [vs EXCEPT ![pda] =
            [@ EXCEPT !.total_balance = @ + amount,
                      !.available_balance = @ + amount,
                      !.last_synced_at = NowTs]]

\* begin; debit from_vault; credit to_vault; commit.
apply_transfer(vs, from_vault, to_vault, amount) ==
    Credit(Debit(vs, from_vault, amount), to_vault, amount)

get_tvl(vs) ==
    LET RECURSIVE Sum(_)
        Sum(S) == IF S = {} THEN 0
                  ELSE LET p == CHOOSE q \in S : TRUE
                       IN vs[p].total_balance + Sum(S \ {p})
    IN Sum(DOMAIN vs)

\* Every amount column of every row fits BIGINT.
RowsInRange(vs) ==
    \A p \in DOMAIN vs :
        /\ InI64(vs[p].total_balance) /\ InI64(vs[p].locked_balance)
        /\ InI64(vs[p].available_balance) /\ InI64(vs[p].total_deposited)
        /\ InI64(vs[p].total_withdrawn)

\* The vaults statement of an event, as process_transaction issues it.
LedgerEffect(vs, ev) ==
    CASE ev.type = "VaultInitialized" ->
            insert_new_vault(vs, ev.vault, ev.user, ev.timestamp)
      [] ev.type = "Deposit" ->
            set_balance_from_event(vs, derive_vault_pda(ev.user),
                                   AsI64(ev.new_balance), ev.timestamp)
      [] ev.type = "Withdraw" -> apply_withdraw(vs, ev.vault, AsI64(ev.amount))
      [] ev.type = "Lock" -> apply_lock(vs, ev.vault, AsI64(ev.amount))
      [] ev.type = "Unlock" -> apply_unlock(vs, ev.vault, AsI64(ev.amount))
      [] ev.type = "Transfer" -> apply_transfer(vs, ev.vault, ev.to, AsI64(ev.amount))
      [] OTHER -> vs

(***************************************************************************)
(* State.                                                                  *)
(***************************************************************************)
Workers == {1, 2}

VARIABLES
    chain,          \* the network: confirmed transactions of the program, oldest first
    vaults,         \* table vaults: vault_pda -> row
    transactions,   \* table transactions: set of rows, unique on tx_signature
    snapshots,      \* table balance_snapshots: set of rows, unique on (vault_pda, snapshot_time)
    processed,      \* table processed_events: set of signatures
    tasks,          \* the indexer tasks that run passes against the store
    pc,             \* per task: where it is in run_once / process_transaction
    queue,          \* per task: signatures of the pass not yet visited
    cur,            \* per task: signature being processed (0: none)
    evi,            \* per task: index of the event being applied
    all_vaults,     \* per task: rows returned by get_all_vaults
    todo,           \* per task: vaults still to snapshot
    room,           \* log lines the network may still confirm
    budget,         \* I/O errors that may still occur
    applied,        \* history: per signature and event, statements run / rows hit
    snapped,        \* history: per signature, snapshot rows inserted
    result,         \* history: per task, outcome of its last process_transaction
    chron,          \* history: vaults table after the chain's events in chain order
    trail,          \* ledger statements issued one by one: the events and their results
    before,         \* history: vaults table before the first statement of trail
    reconciliation_logs, \* table reconciliation_logs, in insertion order
    token_balance,  \* the network: amount held by each vault's token account
    rc_pc,          \* reconciliation worker: where it is in run_once
    rc_todo,        \* reconciliation worker: vault rows of the pass not yet compared
    rc_pass,        \* reconciliation passes started
    rc_list,        \* history: the rows get_all_vaults returned to the pass
    rc_base,        \* history: length of reconciliation_logs when the pass started
    rc_result,      \* history: how the last reconciliation pass ended
    authorized_programs, \* table authorized_programs: set of program ids
    program_calls,  \* table program_calls, in insertion order, unique on tx_signature
    cpi,            \* the CPIManager: its payer, the call in flight, I/O errors left
    cpi_sent,       \* the network: signatures of the transactions the manager sent
    cpi_done,       \* history: the calls of the CPIManager that have returned
    authorized_users, \* AccessControlManager: vault -> users, in push order
    security_events,  \* AccessControlManager: the security log
    failed_attempts,  \* AccessControlManager: user -> failed attempts
    acm,            \* history: the calls made on the AccessControlManager
    retry,          \* one retry_with_backoff / retry_sync call: its locals and history
    sha256,         \* the hash of find_program_address: preimage -> digest
    derived         \* history: the calls of derive_vault_pda and what they returned

db == <<vaults, transactions, snapshots, processed>>
local == <<pc, queue, cur, evi, all_vaults, todo>>
hist == <<applied, snapped, result, chron>>
env == <<tasks, room, budget>>
probe == <<trail, before>>
recon == <<reconciliation_logs, token_balance, rc_pc, rc_todo, rc_pass, rc_list,
           rc_base, rc_result>>
broker == <<authorized_programs, program_calls, cpi, cpi_sent, cpi_done>>
access == <<authorized_users, security_events, failed_attempts, acm>>
keys == <<sha256, derived>>
services == <<broker, access, retry, keys>>
aux == <<amounts, probe, recon, services>>
vars == <<chain, db, local, env, hist, aux>>

Tx(s) == chain[s]
Sigs == 1..Len(chain)

\* The decoded events of the transaction a task is processing.
EventsOf(s) == decode_events(Tx(s)).events

\* ProgramAuthorized and VaultAuthorityInitialized issue no statement.
HasStatement(ev) == ev.type \in BalanceTypes

\* Index of the first event at or after i that issues a statement, or
\* Len + 1.
RECURSIVE SkipTo(_, _)
SkipTo(evs, i) ==
    IF i > Len(evs) THEN i
    ELSE IF HasStatement(evs[i]) THEN i ELSE SkipTo(evs, i + 1)

\* Where process_transaction continues once the events from index i on
\* remain: the next event statement, the snapshot block, or mark_processed.
AfterEvents(s) == IF Tx(s).block_time # NoTime THEN "snapshot" ELSE "mark"
PcAt(s, i) == IF SkipTo(EventsOf(s), i) =< Len(EventsOf(s)) THEN "event" ELSE AfterEvents(s)

\* run_once after a process_transaction that returned Ok.
PassNext(q) == IF q = <<>> THEN "idle" ELSE "next"

Outcome(s, o) == [sig |-> s, outcome |-> o]

\* get_signatures_for_address: newest first.
RECURSIVE Newest(_)
Newest(n) == IF n = 0 THEN <<>> ELSE <<n>> \o Newest(n - 1)
get_signatures_for_address == Newest(Len(chain))

\* An idempotence guard that never finds the signature.
is_processed_never(s) == FALSE

is_processed(s) == s \in processed

\* An insert without a conflict clause on a table without the unique index.
insert_transaction_always(rows, row) == rows \cup {row}

\* An insert that replaces the row of the same signature.
insert_transaction_replacing(rows, row) ==
    {r \in rows : r.tx_signature # row.tx_signature} \cup {row}

\* INSERT ... ON CONFLICT (tx_signature) DO NOTHING.
insert_transaction(rows, row) ==
    IF \E r \in rows : r.tx_signature = row.tx_signature THEN rows ELSE rows \cup {row}

\* insert_simple: the row the indexer writes for a Deposit / Withdraw (the
\* random id column is left out).
insert_simple(rows, vault_pda, user_pubkey, tx_signature, tx_type, amount, slot, block_time) ==
    insert_transaction(rows,
        [vault_pda |-> vault_pda, program_id |-> "", network |-> "localnet",
         user_pubkey |-> user_pubkey, tx_signature |-> tx_signature,
         tx_type |-> tx_type, amount |-> amount, slot |-> slot,
         block_time |-> from_timestamp(block_time)])

\* INSERT ... ON CONFLICT (vault_pda, snapshot_time) DO NOTHING.
insert_snapshot(rows, row) ==
    IF \E r \in rows : r.vault_pda = row.vault_pda /\ r.snapshot_time = row.snapshot_time
    THEN rows ELSE rows \cup {row}

SnapshotRow(pda, v, ts) ==
    [vault_pda |-> pda, program_id |-> v.program_id, network |-> v.network,
     snapshot_time |-> ts, total_balance |-> v.total_balance,
     locked_balance |-> v.locked_balance, available_balance |-> v.available_balance]

\* The vault rows an event's statement matches.
Targets(ev) ==
    CASE ev.type = "Deposit" -> {derive_vault_pda(ev.user)}
      [] ev.type = "Transfer" -> {ev.vault, ev.to}
      [] OTHER -> {ev.vault}

Hits(vs, ev) == ev.type = "VaultInitialized" \/ Targets(ev) \cap DOMAIN vs # {}

NoRun == [runs |-> 0, hits |-> 0]

\* No reconciliation worker runs.
ReconIdle ==
    /\ reconciliation_logs = <<>>
    /\ token_balance = << >>
    /\ rc_pc = "idle"
    /\ rc_todo = <<>>
    /\ rc_pass = 0
    /\ rc_list = <<>>
    /\ rc_base = 0
    /\ rc_result = "none"

\* A CPIManager call: where it is, its arguments, the signature of the
\* transaction it built, and the outbound calls it has made so far.
Call(at, op, caller_program, vault_pda, user_pubkey, amount, signature, steps) ==
    [pc |-> at, op |-> op, caller_program |-> caller_program, vault_pda |-> vault_pda,
     user_pubkey |-> user_pubkey, amount |-> amount, signature |-> signature,
     steps |-> steps]

NoCall == Call("idle", "none", "", NoKey, "", 0, "", <<>>)

\* An AccessControlManager call and what it returned.
Op(name, user, vault, amount, average_withdrawal, min_severity, returned) ==
    [name |-> name, user |-> user, vault |-> vault, amount |-> amount,
     average_withdrawal |-> average_withdrawal, min_severity |-> min_severity,
     returned |-> returned]

NoOp == Op("none", "", NoKey, 0, 0, 0, "none")

\* The tasks that call one AccessControlManager at the same time, and a task
\* that is in no call: pc is where the task is in its method, lock the lock
\* it waits for or holds, held the guards it holds, count the counter it read.
MaxTasks == 3
Callers == 1..MaxTasks
Resting == [pc |-> "idle", op |-> "none", user |-> "", lock |-> "none", held |-> {}, count |-> 0]

\* AccessControlManager::new, with the history of a manager nobody has called;
\* room is the number of calls the model lets its callers make.
NewAcm(n) ==
    /\ authorized_users = << >>
    /\ security_events = <<>>
    /\ failed_attempts = << >>
    /\ acm = [room |-> n, calls |-> 0, last |-> NoOp, pending |-> NoOp, got |-> <<>>,
              granted |-> {}, attempts |-> [u \in Users |-> 0], cleared |-> {}, overlap |-> 0,
              callers |-> [t \in Callers |-> Resting]]

NoRetry ==
    [pc |-> "idle", fn |-> "none", max_attempts |-> 0, initial_delay_ms |-> 0,
     max_delay_ms |-> 0,
     backoff_multiplier |-> <<0, 1>>, attempt |-> 0, delay |-> 0, outcomes |-> <<>>,
     sleeps |-> <<>>, result |-> [kind |-> "none", msg |-> <<>>]]

\* No sibling service calls the CPI broker, the access control manager or a
\* retry helper: CPIManager::new over empty tables, AccessControlManager::new.
BrokerIdle ==
    /\ authorized_programs = {}
    /\ program_calls = <<>>
    /\ cpi = [payer |-> FALSE, faults |-> 0, base |-> 0, call |-> NoCall]
    /\ cpi_sent = {}
    /\ cpi_done = <<>>

\* No TransactionBuilder in use.
KeysIdle ==
    /\ sha256 = << >>
    /\ derived = <<>>

ServicesIdle ==
    /\ KeysIdle
    /\ BrokerIdle
    /\ NewAcm(0)
    /\ retry = NoRetry

Init ==
    /\ chain = <<>>
    /\ vaults = << >>
    /\ transactions = {}
    /\ snapshots = {}
    /\ processed = {}
    /\ tasks = {1}
    /\ room = MaxLines
    /\ budget = MaxFaults
    /\ pc = [w \in Workers |-> "idle"]
    /\ queue = [w \in Workers |-> <<>>]
    /\ cur = [w \in Workers |-> 0]
    /\ evi = [w \in Workers |-> 0]
    /\ all_vaults = [w \in Workers |-> << >>]
    /\ todo = [w \in Workers |-> {}]
    /\ applied = <<>>
    /\ snapped = <<>>
    /\ result = [w \in Workers |-> Outcome(0, "none")]
    /\ chron = << >>
    /\ amounts = Amounts
    /\ trail = <<>>
    /\ before = << >>
    /\ ReconIdle
    /\ ServicesIdle

(***************************************************************************)
(* The network confirms a transaction of the watched program.  Its logs    *)
(* are arbitrary: the indexer has no say in what the chain holds.  A pass  *)
(* reads the signature list once, at its start, so a confirmation during a *)
(* pass is seen like one right after it; confirmations are taken between   *)
(* passes.                                                                 *)
(***************************************************************************)
LogLines(ts) ==
    {Line("event", e) : e \in EventsAt(ts)}
    \cup {Line("malformed", NoEvent), Line("unknown", NoEvent)}

EventLines(logs) == SelectSeq(logs, LAMBDA l : l.kind = "event")

RECURSIVE ApplyAll(_, _)
ApplyAll(vs, evs) ==
    IF evs = <<>> THEN vs ELSE ApplyAll(LedgerEffect(vs, Head(evs)), Tail(evs))

Confirm(logs, block_time) ==
    LET n == Len(chain) + 1
        tx == [signature |-> n, slot |-> n, block_time |-> block_time, logs |-> logs]
        d == decode_events(tx)
    IN /\ chain' = Append(chain, tx)
       /\ applied' = Append(applied, [i \in 1..Len(EventLines(logs)) |-> NoRun])
       /\ snapped' = Append(snapped, 0)
       /\ chron' = IF d.ok THEN ApplyAll(chron, d.events) ELSE chron
       /\ room' = room - Len(logs)
       /\ UNCHANGED <<aux, db, tasks, budget, local, result>>

Submit ==
    /\ Len(chain) < MaxSigs
    /\ \A w \in tasks : pc[w] = "idle"
    /\ \E n \in 1..MaxLogs :
        /\ n =< room
        /\ \E logs \in [1..n -> LogLines(Len(chain) + 1)] :
                Confirm(logs, Len(chain) + 1)

(***************************************************************************)
(* VaultIndexer::run_once                                                  *)
(***************************************************************************)
\* A statement that fails on every pass is retried on every pass, without
\* end: the passes are followed until some statement has run MaxRuns times.
RunOnce(w) ==
    /\ w \in tasks
    /\ pc[w] = "idle"
    /\ chain # <<>>
    /\ \A s \in Sigs : \A i \in DOMAIN applied[s] : applied[s][i].runs < MaxRuns
    /\ queue' = [queue EXCEPT ![w] = get_signatures_for_address]
    /\ pc' = [pc EXCEPT ![w] = "next"]
    /\ result' = [result EXCEPT ![w] = Outcome(0, "none")]
    /\ UNCHANGED <<aux, chain, db, env, cur, evi, all_vaults, todo,
                   applied, snapped, chron>>

\* An error leaves process_transaction and, through `?`, run_once.
Abort(w, s, why) ==
    /\ pc' = [pc EXCEPT ![w] = "idle"]
    /\ queue' = [queue EXCEPT ![w] = <<>>]
    /\ cur' = [cur EXCEPT ![w] = 0]
    /\ evi' = [evi EXCEPT ![w] = 0]
    /\ all_vaults' = [all_vaults EXCEPT ![w] = << >>]
    /\ todo' = [todo EXCEPT ![w] = {}]
    /\ result' = [result EXCEPT ![w] = Outcome(s, why)]

\* process_transaction returned Ok: the pass goes on with the next signature.
Return(w, s, why, q) ==
    /\ pc' = [pc EXCEPT ![w] = PassNext(q)]
    /\ queue' = [queue EXCEPT ![w] = q]
    /\ cur' = [cur EXCEPT ![w] = 0]
    /\ evi' = [evi EXCEPT ![w] = 0]
    /\ all_vaults' = [all_vaults EXCEPT ![w] = << >>]
    /\ todo' = [todo EXCEPT ![w] = {}]
    /\ result' = [result EXCEPT ![w] = Outcome(s, why)]

\* get_transaction fails: run_once returns the error.
GetTransactionFails(w) ==
    /\ pc[w] = "next"
    /\ budget > 0
    /\ budget' = budget - 1
    /\ Abort(w, Head(queue[w]), "rpc_err")
    /\ UNCHANGED <<aux, chain, db, tasks, room, applied, snapped, chron>>

\* get_transaction, then process_transaction up to its first write: the
\* is_processed query and decode_events.
Begin(w) ==
    /\ pc[w] = "next"
    /\ LET s == Head(queue[w])
           q == Tail(queue[w])
           d == decode_events(Tx(s))
       IN IF is_processed(s)
          THEN Return(w, s, "skipped", q)
          ELSE IF ~d.ok
               THEN Abort(w, s, "parse_err")
               ELSE /\ pc' = [pc EXCEPT ![w] = PcAt(s, 1)]
                    /\ queue' = [queue EXCEPT ![w] = q]
                    /\ cur' = [cur EXCEPT ![w] = s]
                    /\ evi' = [evi EXCEPT ![w] = SkipTo(d.events, 1)]
                    /\ UNCHANGED <<all_vaults, todo, result>>
    /\ UNCHANGED <<aux, chain, db, env, applied, snapped, chron>>

\* The is_processed query fails.
IsProcessedFails(w) ==
    /\ pc[w] = "next"
    /\ budget > 0
    /\ budget' = budget - 1
    /\ Abort(w, Head(queue[w]), "db_err")
    /\ UNCHANGED <<aux, chain, db, tasks, room, applied, snapped, chron>>

\* A statement of process_transaction returns an error.
StatementFails(w) ==
    /\ pc[w] \in {"event", "balance", "snapshot", "insert_snapshot", "mark"}
    /\ budget > 0
    /\ budget' = budget - 1
    /\ Abort(w, cur[w], "db_err")
    /\ UNCHANGED <<aux, chain, db, tasks, room, applied, snapped, chron>>

Ran(s, i, hit) ==
    [applied EXCEPT ![s][i] = [runs |-> @.runs + 1,
                                hits |-> @.hits + (IF hit THEN 1 ELSE 0)]]

\* The ledger statement of the current event.
ApplyLedger(w) ==
    LET s == cur[w]
        evs == EventsOf(s)
        ev == evs[evi[w]]
        vs == LedgerEffect(vaults, ev)
        j == SkipTo(evs, evi[w] + 1)
    IN IF RowsInRange(vs)
       THEN /\ vaults' = vs
            /\ applied' = Ran(s, evi[w], Hits(vaults, ev))
            /\ evi' = [evi EXCEPT ![w] = j]
            /\ pc' = [pc EXCEPT ![w] = PcAt(s, evi[w] + 1)]
            /\ UNCHANGED <<queue, cur, all_vaults, todo, result>>
       ELSE /\ Abort(w, s, "db_err")
            /\ UNCHANGED <<vaults, applied>>

\* First statement of the current event: insert_simple for a Deposit or a
\* Withdraw, the ledger statement for the others.
ApplyEvent(w) ==
    /\ pc[w] = "event"
    /\ LET s == cur[w]
           tx == Tx(s)
           ev == EventsOf(s)[evi[w]]
           block_time == IF tx.block_time = NoTime THEN 0 ELSE tx.block_time
       IN IF ev.type \in {"Deposit", "Withdraw"}
          THEN /\ transactions' =
                    insert_simple(transactions,
                        IF ev.type = "Deposit" THEN derive_vault_pda(ev.user) ELSE ev.vault,
                        ev.user, s,
                        IF ev.type = "Deposit" THEN "deposit" ELSE "withdraw",
                        AsI64(ev.amount), tx.slot, block_time)
               /\ pc' = [pc EXCEPT ![w] = "balance"]
               /\ UNCHANGED <<vaults, applied, queue, cur, evi, all_vaults, todo, result>>
          ELSE /\ ApplyLedger(w)
               /\ UNCHANGED transactions
    /\ UNCHANGED <<aux, chain, snapshots, processed, env, snapped, chron>>

\* Second statement of a Deposit (set_balance_from_event) or a Withdraw
\* (apply_withdraw).
ApplyBalance(w) ==
    /\ pc[w] = "balance"
    /\ ApplyLedger(w)
    /\ UNCHANGED <<aux, chain, transactions, snapshots, processed, env,
                   snapped, chron>>

\* get_all_vaults, for the snapshot block.
GetAllVaults(w) ==
    /\ pc[w] = "snapshot"
    /\ all_vaults' = [all_vaults EXCEPT ![w] = vaults]
    /\ todo' = [todo EXCEPT ![w] = DOMAIN vaults]
    /\ pc' = [pc EXCEPT ![w] = IF DOMAIN vaults = {} THEN "mark" ELSE "insert_snapshot"]
    /\ UNCHANGED <<aux, chain, db, env, queue, cur, evi, hist>>

\* snapshot_all_vaults: one insert_snapshot per row, in the order of
\* get_all_vaults (ORDER BY created_at ASC; rows of equal created_at in any
\* order).
InsertSnapshot(w) ==
    /\ pc[w] = "insert_snapshot"
    /\ \E p \in todo[w] :
        /\ \A o \in todo[w] : all_vaults[w][p].created_at =< all_vaults[w][o].created_at
        /\ LET row == SnapshotRow(p, all_vaults[w][p], from_timestamp(Tx(cur[w]).block_time))
               rows == insert_snapshot(snapshots, row)
           IN /\ snapshots' = rows
              /\ snapped' = [snapped EXCEPT ![cur[w]] = @ + (IF rows = snapshots THEN 0 ELSE 1)]
        /\ todo' = [todo EXCEPT ![w] = @ \ {p}]
        /\ pc' = [pc EXCEPT ![w] = IF todo[w] = {p} THEN "mark" ELSE "insert_snapshot"]
    /\ UNCHANGED <<aux, chain, vaults, transactions, processed, env, queue, cur, evi,
                   all_vaults, applied, result, chron>>

\* INSERT INTO processed_events ... ON CONFLICT DO NOTHING, then Ok(()).
MarkProcessed(w) ==
    /\ pc[w] = "mark"
    /\ processed' = processed \cup {cur[w]}
    /\ Return(w, cur[w], "ok", queue[w])
    /\ UNCHANGED <<aux, chain, vaults, transactions, snapshots, env,
                   applied, snapped, chron>>

\* The steps of a pass in which every call succeeds.
Step(w) ==
    \/ RunOnce(w)
    \/ Begin(w)
    \/ ApplyEvent(w)
    \/ ApplyBalance(w)
    \/ GetAllVaults(w)
    \/ InsertSnapshot(w)
    \/ MarkProcessed(w)

\* The steps in which an RPC call or a statement returns an error.
Fault(w) ==
    \/ GetTransactionFails(w)
    \/ IsProcessedFails(w)
    \/ StatementFails(w)

Next == Submit \/ \E w \in Workers : Step(w) \/ Fault(w)

NextConc == Submit \/ \E w \in Workers : Step(w)

Spec == Init /\ [][Next]_vars

\* Two indexer tasks share the store; every call succeeds.
InitConc ==
    /\ chain = <<>>
    /\ vaults = << >>
    /\ transactions = {}
    /\ snapshots = {}
    /\ processed = {}
    /\ tasks = Workers
    /\ room = ConcLines
    /\ budget = MaxFaults
    /\ pc = [w \in Workers |-> "idle"]
    /\ queue = [w \in Workers |-> <<>>]
    /\ cur = [w \in Workers |-> 0]
    /\ evi = [w \in Workers |-> 0]
    /\ all_vaults = [w \in Workers |-> << >>]
    /\ todo = [w \in Workers |-> {}]
    /\ applied = <<>>
    /\ snapped = <<>>
    /\ result = [w \in Workers |-> Outcome(0, "none")]
    /\ chron = << >>
    /\ amounts = Amounts
    /\ trail = <<>>
    /\ before = << >>
    /\ ReconIdle
    /\ ServicesIdle

SpecConc == InitConc /\ [][NextConc]_vars

\* Amounts over the whole u64 range, the two sides of 2^63 included.
U64_MAX == (2 ^ IntBits) - 1
WideAmounts == {1, I64_MAX, I64_MAX + 1, U64_MAX}

\* One indexer task, every call succeeds, and the chain's events carry
\* amounts over the whole u64 range.
InitWide ==
    /\ chain = <<>>
    /\ vaults = << >>
    /\ transactions = {}
    /\ snapshots = {}
    /\ processed = {}
    /\ tasks = {1}
    /\ room = WideLines
    /\ budget = MaxFaults
    /\ pc = [w \in Workers |-> "idle"]
    /\ queue = [w \in Workers |-> <<>>]
    /\ cur = [w \in Workers |-> 0]
    /\ evi = [w \in Workers |-> 0]
    /\ all_vaults = [w \in Workers |-> << >>]
    /\ todo = [w \in Workers |-> {}]
    /\ applied = <<>>
    /\ snapped = <<>>
    /\ result = [w \in Workers |-> Outcome(0, "none")]
    /\ chron = << >>
    /\ amounts = WideAmounts
    /\ trail = <<>>
    /\ before = << >>
    /\ ReconIdle
    /\ ServicesIdle

SpecWide == InitWide /\ [][NextConc]_vars

\* One indexer task that runs pass after pass, every call succeeding: a
\* pass that ended is followed by the next one, and a pass under way goes on.
InitLive ==
    /\ chain = <<>>
    /\ vaults = << >>
    /\ transactions = {}
    /\ snapshots = {}
    /\ processed = {}
    /\ tasks = {1}
    /\ room = ConcLines
    /\ budget = MaxFaults
    /\ pc = [w \in Workers |-> "idle"]
    /\ queue = [w \in Workers |-> <<>>]
    /\ cur = [w \in Workers |-> 0]
    /\ evi = [w \in Workers |-> 0]
    /\ all_vaults = [w \in Workers |-> << >>]
    /\ todo = [w \in Workers |-> {}]
    /\ applied = <<>>
    /\ snapped = <<>>
    /\ result = [w \in Workers |-> Outcome(0, "none")]
    /\ chron = << >>
    /\ amounts = Amounts
    /\ trail = <<>>
    /\ before = << >>
    /\ ReconIdle
    /\ ServicesIdle

SpecLive == InitLive /\ [][NextConc]_vars /\ WF_vars(\E w \in Workers : Step(w))

(***************************************************************************)
(* The ledger statements on their own: the store holds any vault rows, and *)
(* the statements process_transaction issues for balance events are run    *)
(* one after the other (two of them), for any u64 amount.  No bound check  *)
(* guards a row, so every BIGINT value is a value a column can hold.       *)
(***************************************************************************)
RowVals == {I64_MIN, 0, 1, I64_MAX}

StoredRows(owner) ==
    {VaultRow(owner, t, l, a, 0, w, 0, 0) : t \in RowVals, l \in RowVals, a \in RowVals,
                                           w \in {0, 1}}

InitLedger ==
    /\ chain = <<>>
    /\ \E r1 \in StoredRows("u1") :
          \/ vaults = (derive_vault_pda("u1") :> r1)
          \/ vaults = (derive_vault_pda("u1") :> r1) @@
                       (derive_vault_pda("u2") :> VaultRow("u2", 0, 0, 0, 0, 0, 0, 0))
    /\ transactions = {}
    /\ snapshots = {}
    /\ processed = {}
    /\ tasks = {}
    /\ room = 0
    /\ budget = 0
    /\ pc = [w \in Workers |-> "idle"]
    /\ queue = [w \in Workers |-> <<>>]
    /\ cur = [w \in Workers |-> 0]
    /\ evi = [w \in Workers |-> 0]
    /\ all_vaults = [w \in Workers |-> << >>]
    /\ todo = [w \in Workers |-> {}]
    /\ applied = <<>>
    /\ snapped = <<>>
    /\ result = [w \in Workers |-> Outcome(0, "none")]
    /\ chron = << >>
    /\ amounts = WideAmounts
    /\ trail = <<>>
    /\ before = vaults
    /\ ReconIdle
    /\ ServicesIdle

\* The vaults statement of one balance event, with its result: Ok, or the
\* statement's error, which leaves the table as it was.  (A Deposit's amount
\* does not enter its vaults statement; it is taken equal to new_balance.)
ApplyStatement ==
    /\ Len(trail) < 2
    /\ \E ev \in EventsAt(0) :
        /\ HasStatement(ev)
        /\ ev.type = "Deposit" => ev.amount = ev.new_balance
        /\ LET vs == LedgerEffect(vaults, ev)
               ok == RowsInRange(vs)
           IN /\ vaults' = IF ok THEN vs ELSE vaults
              /\ trail' = Append(trail, [ev |-> ev, ok |-> ok])
    /\ UNCHANGED <<chain, transactions, snapshots, processed, local, env, hist,
                   amounts, before, recon, services>>

NextLedger == ApplyStatement

SpecLedger == InitLedger /\ [][NextLedger]_vars

(***************************************************************************)
(* Reconciliation worker (reconciliation/worker.rs, reconciliation/        *)
(* onchain.rs, db/reconciliation_repo.rs).  A pass reads the vaults table  *)
(* once, then for each row parses the stored token-account key, fetches    *)
(* the account's amount from the network and, when it differs from the     *)
(* row's total_balance, inserts a row into reconciliation_logs.  A vault's *)
(* token account is the associated token account of its PDA; the store     *)
(* holds its key as a string, "" when the indexer inserted the row.        *)
(***************************************************************************)
\* get_associated_token_address(vault_pda, mint), as its to_string().
vault_token_account(pda) == "ata:" \o pda[2] \o ":" \o MINT

TokenAccounts == {vault_token_account(p) : p \in Pdas}
TokenAmounts == {0, 1, I64_MAX + 1}

\* Pubkey::from_str: Err for a string that is no base58 key of 32 bytes.
Pubkey_from_str(str) == [ok |-> str # "", key |-> str]

fetch_token_balance(token_account) == token_balance[token_account]

\* i64 arithmetic of a build without overflow checks.
WrapI64(x) == ((x - I64_MIN) % (2 ^ IntBits)) + I64_MIN

\* The column default of reconciliation_logs.resolved.
ResolvedDefault == FALSE

\* An insert that also closes the vault's earlier entries.
insert_discrepancy_resolving(logs, vault_pda, program_id, network, onchain_balance, offchain_balance, discrepancy) ==
    Append([i \in 1..Len(logs) |->
                IF logs[i].vault_pda = vault_pda
                THEN [logs[i] EXCEPT !.resolved = TRUE] ELSE logs[i]],
           [id |-> Len(logs) + 1, vault_pda |-> vault_pda, program_id |-> program_id,
            network |-> network, onchain_balance |-> onchain_balance,
            offchain_balance |-> offchain_balance, discrepancy |-> discrepancy,
            detected_at |-> NowTs, resolved |-> ResolvedDefault])

\* INSERT INTO reconciliation_logs (...) VALUES (..., NOW()) with a fresh id.
insert_discrepancy(logs, vault_pda, program_id, network, onchain_balance, offchain_balance, discrepancy) ==
    Append(logs,
           [id |-> Len(logs) + 1, vault_pda |-> vault_pda, program_id |-> program_id,
            network |-> network, onchain_balance |-> onchain_balance,
            offchain_balance |-> offchain_balance, discrepancy |-> discrepancy,
            detected_at |-> NowTs, resolved |-> ResolvedDefault])

\* SELECT * FROM vaults ORDER BY created_at ASC: the rows in an order that
\* agrees with created_at.
Listings(vs) ==
    {q \in [1..Cardinality(DOMAIN vs) -> DOMAIN vs] :
        /\ \A i, j \in DOMAIN q : i # j => q[i] # q[j]
        /\ \A i, j \in DOMAIN q : i < j => vs[q[i]].created_at =< vs[q[j]].created_at}

\* Rows of a store that other writers than the indexer filled as well
\* (upsert_vault takes any row): the token-account key is set or "".
ReconRows(owner) ==
    {[VaultRow(owner, t, 0, t, 0, 0, 0, 0) EXCEPT !.vault_token_account = k] :
        t \in {0, 1}, k \in {"", vault_token_account(derive_vault_pda(owner))}}

InitRecon ==
    /\ chain = <<>>
    /\ \E S \in SUBSET Users :
          vaults \in {f \in [{derive_vault_pda(u) : u \in S} ->
                                UNION {ReconRows(u) : u \in S}] :
                         \A u \in S : f[derive_vault_pda(u)] \in ReconRows(u)}
    /\ transactions = {}
    /\ snapshots = {}
    /\ processed = {}
    /\ tasks = {1}
    /\ room = ReconLines
    /\ budget = MaxFaults
    /\ pc = [w \in Workers |-> "idle"]
    /\ queue = [w \in Workers |-> <<>>]
    /\ cur = [w \in Workers |-> 0]
    /\ evi = [w \in Workers |-> 0]
    /\ all_vaults = [w \in Workers |-> << >>]
    /\ todo = [w \in Workers |-> {}]
    /\ applied = <<>>
    /\ snapped = <<>>
    /\ result = [w \in Workers |-> Outcome(0, "none")]
    /\ chron = << >>
    /\ amounts = Amounts
    /\ trail = <<>>
    /\ before = << >>
    /\ reconciliation_logs = <<>>
    /\ token_balance \in [TokenAccounts -> TokenAmounts]
    /\ rc_pc = "idle"
    /\ rc_todo = <<>>
    /\ rc_pass = 0
    /\ rc_list = <<>>
    /\ rc_base = 0
    /\ rc_result = "none"
    /\ ServicesIdle

\* run_once returns: Ok after the last vault, Err through `?`.
ReconReturn(why) ==
    /\ rc_pc' = "idle"
    /\ rc_todo' = <<>>
    /\ rc_result' = why

\* run_once up to the loop: get_all_vaults.
ReconRunOnce ==
    /\ rc_pc = "idle"
    /\ rc_pass < MaxPasses
    /\ rc_pass' = rc_pass + 1
    /\ rc_base' = Len(reconciliation_logs)
    /\ \E q \in Listings(vaults) :
          LET rows == [i \in DOMAIN q |-> [vault_pda |-> q[i], row |-> vaults[q[i]]]]
          IN /\ rc_list' = rows
             /\ IF rows = <<>>
                THEN ReconReturn("ok")
                ELSE /\ rc_pc' = "vault"
                     /\ rc_todo' = rows
                     /\ rc_result' = "none"
    /\ UNCHANGED <<chain, db, local, env, hist, amounts, probe, services,
                   reconciliation_logs, token_balance>>

\* get_all_vaults fails.
ReconGetAllVaultsFails ==
    /\ rc_pc = "idle"
    /\ rc_pass < MaxPasses
    /\ budget > 0
    /\ budget' = budget - 1
    /\ rc_pass' = rc_pass + 1
    /\ rc_base' = Len(reconciliation_logs)
    /\ rc_list' = <<>>
    /\ ReconReturn("db_err")
    /\ UNCHANGED <<chain, db, local, tasks, room, hist, amounts, probe, services,
                   reconciliation_logs, token_balance>>

\* The loop goes on with the next row, or run_once returns Ok.
ReconAdvance ==
    /\ rc_todo' = Tail(rc_todo)
    /\ rc_pc' = IF Tail(rc_todo) = <<>> THEN "idle" ELSE "vault"
    /\ rc_result' = IF Tail(rc_todo) = <<>> THEN "ok" ELSE rc_result

\* One iteration of the loop in which the calls succeed: parse the key,
\* fetch the amount, compare, insert.  The subtraction wraps here.
ReconVault ==
    /\ rc_pc = "vault"
    /\ LET vault == Head(rc_todo)
           token_account == Pubkey_from_str(vault.row.vault_token_account)
       IN IF ~token_account.ok
          THEN /\ ReconReturn("parse_err")
               /\ UNCHANGED reconciliation_logs
          ELSE LET onchain_balance == fetch_token_balance(token_account.key)
                   offchain_balance == vault.row.total_balance
               IN /\ reconciliation_logs' =
                        IF AsI64(onchain_balance) # offchain_balance
                        THEN insert_discrepancy(reconciliation_logs, vault.vault_pda,
                                 vault.row.program_id, vault.row.network,
                                 AsI64(onchain_balance), offchain_balance,
                                 WrapI64(offchain_balance - AsI64(onchain_balance)))
                        ELSE reconciliation_logs
                  /\ ReconAdvance
    /\ UNCHANGED <<chain, db, local, env, hist, amounts, probe, services,
                   token_balance, rc_pass, rc_list, rc_base>>

\* The subtraction overflows in a build with overflow checks: the task
\* panics.
ReconVaultPanics ==
    /\ rc_pc = "vault"
    /\ LET vault == Head(rc_todo)
           token_account == Pubkey_from_str(vault.row.vault_token_account)
       IN /\ token_account.ok
          /\ AsI64(fetch_token_balance(token_account.key)) # vault.row.total_balance
          /\ ~InI64(vault.row.total_balance - AsI64(fetch_token_balance(token_account.key)))
    /\ ReconReturn("panic")
    /\ UNCHANGED <<chain, db, local, env, hist, amounts, probe, services,
                   reconciliation_logs, token_balance, rc_pass, rc_list, rc_base>>

\* fetch_token_balance fails (get_account or unpack).
ReconFetchFails ==
    /\ rc_pc = "vault"
    /\ Pubkey_from_str(Head(rc_todo).row.vault_token_account).ok
    /\ budget > 0
    /\ budget' = budget - 1
    /\ ReconReturn("rpc_err")
    /\ UNCHANGED <<chain, db, local, tasks, room, hist, amounts, probe, services,
                   reconciliation_logs, token_balance, rc_pass, rc_list, rc_base>>

\* insert_discrepancy fails.
ReconInsertFails ==
    /\ rc_pc = "vault"
    /\ LET vault == Head(rc_todo)
           token_account == Pubkey_from_str(vault.row.vault_token_account)
       IN /\ token_account.ok
          /\ AsI64(fetch_token_balance(token_account.key)) # vault.row.total_balance
    /\ budget > 0
    /\ budget' = budget - 1
    /\ ReconReturn("db_err")
    /\ UNCHANGED <<chain, db, local, tasks, room, hist, amounts, probe, services,
                   reconciliation_logs, token_balance, rc_pass, rc_list, rc_base>>

\* The reconciliation worker next to one indexer task.
NextRecon ==
    \/ Submit
    \/ \E w \in Workers : Step(w)
    \/ ReconRunOnce \/ ReconVault \/ ReconVaultPanics
    \/ ReconGetAllVaultsFails \/ ReconFetchFails \/ ReconInsertFails

SpecRecon == InitRecon /\ [][NextRecon]_vars

(***************************************************************************)
(* Authorization registry and CPI broker (cpi_manager.rs,                  *)
(* db/program_repo.rs).  A call awaits, in this order: the authorization   *)
(* query, the blockhash fetch, for the signed variants the send, and the   *)
(* audit INSERT; each of them can fail and `?` returns the error.  The     *)
(* registry is filled through ProgramRepository::insert_authorized_program *)
(* and no statement of the repository deletes from it.                     *)
(***************************************************************************)
MaxCalls == 2

Programs == {"perps", "liquidator"}
CpiAmounts == {1, I64_MAX + 1}

\* Transaction::new_unsigned fills every signature slot with
\* Signature::default(); its to_string() is the same text for every request.
Signature_default == "1111"
Signed(op) == op \in {"lock_collateral", "unlock_collateral"}
Instruction(op) == IF op \in {"build_lock_collateral_tx", "lock_collateral"} THEN "lock" ELSE "unlock"

is_program_authorized_any(programs, program_id) == TRUE

is_program_authorized(programs, program_id) == program_id \in programs

insert_authorized_program(programs, program_id) == programs \cup {program_id}

\* INSERT ... ON CONFLICT (tx_signature) DO NOTHING.
insert_program_call(rows, tx_signature, caller_program, vault_pda, instruction, amount, slot, block_time) ==
    IF \E i \in DOMAIN rows : rows[i].tx_signature = tx_signature
    THEN rows
    ELSE Append(rows, [tx_signature |-> tx_signature, caller_program |-> caller_program,
                       vault_pda |-> vault_pda, instruction |-> instruction,
                       amount |-> amount, slot |-> slot, block_time |-> block_time])

\* The indexer is not running and the chain of the watched program is empty.
IndexerIdle ==
    /\ chain = <<>>
    /\ vaults = << >>
    /\ transactions = {}
    /\ snapshots = {}
    /\ processed = {}
    /\ tasks = {}
    /\ room = 0
    /\ budget = 0
    /\ pc = [w \in Workers |-> "idle"]
    /\ queue = [w \in Workers |-> <<>>]
    /\ cur = [w \in Workers |-> 0]
    /\ evi = [w \in Workers |-> 0]
    /\ all_vaults = [w \in Workers |-> << >>]
    /\ todo = [w \in Workers |-> {}]
    /\ applied = <<>>
    /\ snapped = <<>>
    /\ result = [w \in Workers |-> Outcome(0, "none")]
    /\ chron = << >>
    /\ amounts = Amounts
    /\ trail = <<>>
    /\ before = << >>

\* CPIManager::new / new_with_payer over an empty registry and audit table.
InitCpi ==
    /\ IndexerIdle
    /\ ReconIdle
    /\ authorized_programs = {}
    /\ program_calls = <<>>
    /\ \E p \in BOOLEAN : cpi = [payer |-> p, faults |-> MaxFaults, base |-> 0, call |-> NoCall]
    /\ cpi_sent = {}
    /\ cpi_done = <<>>
    /\ NewAcm(0)
    /\ retry = NoRetry
    /\ KeysIdle

\* The call returns: its record, with what it did, joins the history.
\* base and rows are the lengths of program_calls at its entry and at its return.
Returned(call, why, base, rows) ==
    [call |-> call, result |-> why, payer |-> cpi.payer, base |-> base, rows |-> rows,
     authorized |-> call.caller_program \in authorized_programs]

CpiReturn(call, why, rows) ==
    /\ cpi_done' = Append(cpi_done, Returned(call, why, cpi.base, rows))
    /\ cpi' = [cpi EXCEPT !.call = NoCall]

Reached(at) == [cpi.call EXCEPT !.steps = Append(@, at)]

\* Entry of the four public methods.  The signed variants first take the
\* payer (self.payer.as_ref().ok_or_else(..)?) and derive the vault PDA from
\* the user; the build variants take the PDA as an argument.
CpiCall(op, caller_program, vault_pda, user_pubkey, amount) ==
    /\ cpi.call.pc = "idle"
    /\ Len(cpi_done) < MaxCalls
    /\ Signed(op) => vault_pda = derive_vault_pda(user_pubkey)
    /\ LET call == Call("auth", op, caller_program, vault_pda, user_pubkey, amount, "", <<>>)
       IN IF Signed(op) /\ ~cpi.payer
          THEN /\ cpi_done' = Append(cpi_done, Returned(call, "no payer", Len(program_calls),
                                                         Len(program_calls)))
               /\ cpi' = [cpi EXCEPT !.base = Len(program_calls)]
          ELSE /\ cpi' = [cpi EXCEPT !.call = call, !.base = Len(program_calls)]
               /\ UNCHANGED cpi_done
    /\ UNCHANGED <<authorized_programs, program_calls, cpi_sent>>
    /\ UNCHANGED <<chain, db, local, env, hist, amounts, probe, recon, access, retry, keys>>

\* ensure_authorized_program.
EnsureAuthorized ==
    /\ cpi.call.pc = "auth"
    /\ IF is_program_authorized(authorized_programs, cpi.call.caller_program)
       THEN /\ cpi' = [cpi EXCEPT !.call = [Reached("auth") EXCEPT !.pc = "blockhash"]]
            /\ UNCHANGED cpi_done
       ELSE CpiReturn(Reached("auth"), "unauthorized CPI caller", Len(program_calls))
    /\ UNCHANGED <<authorized_programs, program_calls, cpi_sent>>
    /\ UNCHANGED <<chain, db, local, env, hist, amounts, probe, recon, access, retry, keys>>

\* rpc.get_latest_blockhash; the build variants then hold an unsigned
\* transaction, whose first signature slot is the default signature.
GetLatestBlockhash ==
    /\ cpi.call.pc = "blockhash"
    /\ cpi' = [cpi EXCEPT !.call =
                  IF Signed(cpi.call.op)
                  THEN [Reached("blockhash") EXCEPT !.pc = "send"]
                  ELSE [Reached("blockhash") EXCEPT !.pc = "audit",
                                                    !.signature = Signature_default]]
    /\ UNCHANGED <<authorized_programs, program_calls, cpi_sent, cpi_done>>
    /\ UNCHANGED <<chain, db, local, env, hist, amounts, probe, recon, access, retry, keys>>

\* rpc.send_and_confirm_transaction of the signed variants; every transaction
\* the network confirms has a signature of its own.
SendAndConfirm ==
    /\ cpi.call.pc = "send"
    /\ LET signature == <<"sig1", "sig2", "sig3">>[Cardinality(cpi_sent) + 1]
       IN /\ cpi_sent' = cpi_sent \cup {signature}
          /\ cpi' = [cpi EXCEPT !.call = [Reached("send") EXCEPT !.pc = "audit",
                                                                 !.signature = signature]]
    /\ UNCHANGED <<authorized_programs, program_calls, cpi_done>>
    /\ UNCHANGED <<chain, db, local, env, hist, amounts, probe, recon, access, retry, keys>>

\* repo.insert_program_call(..).await?, then Ok(encoded) / Ok(signature).
InsertProgramCall ==
    /\ cpi.call.pc = "audit"
    /\ program_calls' = insert_program_call(program_calls, cpi.call.signature,
                            cpi.call.caller_program, cpi.call.vault_pda,
                            Instruction(cpi.call.op), AsI64(cpi.call.amount), 0, 0)
    /\ CpiReturn(Reached("audit"), "Ok", Len(program_calls'))
    /\ UNCHANGED <<authorized_programs, cpi_sent>>
    /\ UNCHANGED <<chain, db, local, env, hist, amounts, probe, recon, access, retry, keys>>

\* The awaited call the method is at fails and `?` returns its error.
CpiCallFails ==
    /\ cpi.call.pc \in {"auth", "blockhash", "send", "audit"}
    /\ cpi.faults > 0
    /\ cpi_done' = Append(cpi_done, Returned(Reached(cpi.call.pc), "error", cpi.base,
                                              Len(program_calls)))
    /\ cpi' = [cpi EXCEPT !.call = NoCall, !.faults = @ - 1]
    /\ UNCHANGED <<authorized_programs, program_calls, cpi_sent>>
    /\ UNCHANGED <<chain, db, local, env, hist, amounts, probe, recon, access, retry, keys>>

\* An administrator registers a program, at any time.
InsertAuthorizedProgram(program_id) ==
    /\ authorized_programs' = insert_authorized_program(authorized_programs, program_id)
    /\ UNCHANGED <<program_calls, cpi, cpi_sent, cpi_done>>
    /\ UNCHANGED <<chain, db, local, env, hist, amounts, probe, recon, access, retry, keys>>

NextCpi ==
    \/ \E op \in {"build_lock_collateral_tx", "build_unlock_collateral_tx",
                  "lock_collateral", "unlock_collateral"} :
          \E c \in Programs, v \in Pdas, u \in Users, a \in CpiAmounts : CpiCall(op, c, v, u, a)
    \/ EnsureAuthorized
    \/ GetLatestBlockhash
    \/ SendAndConfirm
    \/ InsertProgramCall
    \/ CpiCallFails
    \/ \E p \in Programs : InsertAuthorizedProgram(p)

SpecCpi == InitCpi /\ [][NextCpi]_vars

(***************************************************************************)
(* Access control and alerts (access_control.rs).  The manager's three     *)
(* maps sit behind one read/write lock each, and a method holds a lock for *)
(* one statement only: record_unauthorized_attempt pushes its event under  *)
(* the lock of the log and then takes the lock of the counters, so calls   *)
(* of other tasks can run between the two.  Every other method touches one *)
(* map, once.                                                              *)
(***************************************************************************)
MaxOps == 4
MaxAttempts == 7

\* enum AlertSeverity.
Low == 1
Medium == 2
High == 3
Critical == 4

SecurityEvent(event_type, user, vault, details, severity) ==
    [event_type |-> event_type, user |-> user, vault |-> vault, timestamp |-> NowTs,
     details |-> details, severity |-> severity]

\* entry(vault).or_insert_with(Vec::new).push(user).
authorize_user(users, vault, user) ==
    IF vault \in DOMAIN users
    THEN [users EXCEPT ![vault] = Append(@, user)]
    ELSE users @@ (vault :> <<user>>)

is_authorized_anywhere(users, vault, user) ==
    \E v \in DOMAIN users : \E i \in DOMAIN users[v] : users[v][i] = user

\* get(vault).map(|users| users.contains(user)).unwrap_or(false).
is_authorized(users, vault, user) ==
    vault \in DOMAIN users /\ \E i \in DOMAIN users[vault] : users[vault][i] = user

get_failed_attempts(failed, user) == IF user \in DOMAIN failed THEN failed[user] ELSE 0

is_user_blocked_at_three(failed, user) == get_failed_attempts(failed, user) >= 3

is_user_blocked(failed, user) == get_failed_attempts(failed, user) >= 5

\* failed_attempts.remove(user).
clear_failed_attempts(failed, user) == [u \in DOMAIN failed \ {user} |-> failed[u]]

count_failed_attempt_all(failed, user) ==
    [u \in DOMAIN failed \cup {user} |-> IF u = user THEN get_failed_attempts(failed, u) + 1
                                                    ELSE failed[u] + 1]

\* *failed.entry(user).or_insert(0) += 1.
count_failed_attempt(failed, user) ==
    [u \in DOMAIN failed \cup {user} |-> IF u = user THEN get_failed_attempts(failed, u) + 1
                                                    ELSE failed[u]]

\* `if amount > average_withdrawal * 10`, on the product the u64
\* multiplication delivered.
withdrawal_severity(amount, product) == IF amount > product THEN Critical ELSE Medium

get_alerts_above_severity(events, min_severity) ==
    SelectSeq(events, LAMBDA e : e.severity > min_severity)

\* iter().filter(|e| e.severity >= min_severity).cloned().collect().
get_alerts_by_severity(events, min_severity) ==
    SelectSeq(events, LAMBDA e : e.severity >= min_severity)

\* A call is made on the manager: the history takes it up.
Called(op) == [acm EXCEPT !.room = @ - 1, !.calls = @ + 1, !.last = op]

AuthorizeUser(vault, user) ==
    /\ acm.room > 0
    /\ authorized_users' = authorize_user(authorized_users, vault, user)
    /\ acm' = [Called(Op("authorize_user", user, vault, 0, 0, 0, "Ok")) EXCEPT
                  !.granted = @ \cup {<<vault, user>>}]
    /\ UNCHANGED <<security_events, failed_attempts>>
    /\ UNCHANGED <<chain, db, local, env, hist, amounts, probe, recon, broker, retry, keys>>

\* record_unauthorized_attempt up to the push of its event.
RecordUnauthorizedAttempt(user, vault) ==
    /\ acm.room > 0
    /\ acm.pending = NoOp
    /\ security_events' = Append(security_events,
           SecurityEvent("UnauthorizedAccessAttempt", user, vault, "attempt", High))
    /\ LET op == Op("record_unauthorized_attempt", user, vault, 0, 0, 0, "Ok")
       IN acm' = [Called(op) EXCEPT !.pending = op]
    /\ UNCHANGED <<authorized_users, failed_attempts>>
    /\ UNCHANGED <<chain, db, local, env, hist, amounts, probe, recon, broker, retry, keys>>

\* record_unauthorized_attempt from the lock of the counters to its return.
CountFailedAttempt ==
    /\ acm.pending # NoOp
    /\ failed_attempts' = count_failed_attempt(failed_attempts, acm.pending.user)
    /\ acm' = [acm EXCEPT !.pending = NoOp, !.attempts[acm.pending.user] = @ + 1]
    /\ UNCHANGED <<authorized_users, security_events>>
    /\ UNCHANGED <<chain, db, local, env, hist, amounts, probe, recon, broker, retry, keys>>

\* record_suspicious_withdrawal.  When average_withdrawal * 10 does not fit
\* in a u64 the multiplication panics (overflow checks on) or wraps (off).
RecordSuspiciousWithdrawal(user, vault, amount, average_withdrawal) ==
    /\ acm.room > 0
    /\ \E panics \in {FALSE, average_withdrawal * 10 > U64_MAX} :
          IF panics
          THEN /\ acm' = Called(Op("record_suspicious_withdrawal", user, vault, amount,
                                   average_withdrawal, 0, "panic"))
               /\ UNCHANGED security_events
          ELSE /\ acm' = Called(Op("record_suspicious_withdrawal", user, vault, amount,
                                   average_withdrawal, 0, "Ok"))
               /\ security_events' = Append(security_events,
                      SecurityEvent("SuspiciousWithdrawal", user, vault,
                          <<amount, average_withdrawal>>,
                          withdrawal_severity(amount, (average_withdrawal * 10) % (U64_MAX + 1))))
    /\ UNCHANGED <<authorized_users, failed_attempts>>
    /\ UNCHANGED <<chain, db, local, env, hist, amounts, probe, recon, broker, retry, keys>>

RecordRapidTransactions(user, vault) ==
    /\ acm.room > 0
    /\ security_events' = Append(security_events,
           SecurityEvent("RapidTransactionSequence", user, vault, "rapid", High))
    /\ acm' = Called(Op("record_rapid_transactions", user, vault, 0, 0, 0, "Ok"))
    /\ UNCHANGED <<authorized_users, failed_attempts>>
    /\ UNCHANGED <<chain, db, local, env, hist, amounts, probe, recon, broker, retry, keys>>

\* get_security_events: self.security_events.read().await.clone().
GetSecurityEvents ==
    /\ acm.room > 0
    /\ acm' = [Called(Op("get_security_events", "", NoKey, 0, 0, 0, security_events)) EXCEPT
                  !.got = security_events]
    /\ UNCHANGED <<authorized_users, security_events, failed_attempts>>
    /\ UNCHANGED <<chain, db, local, env, hist, amounts, probe, recon, broker, retry, keys>>

GetAlertsBySeverity(min_severity) ==
    /\ acm.room > 0
    /\ LET alerts == get_alerts_by_severity(security_events, min_severity)
       IN acm' = [Called(Op("get_alerts_by_severity", "", NoKey, 0, 0, min_severity, alerts))
                     EXCEPT !.got = alerts]
    /\ UNCHANGED <<authorized_users, security_events, failed_attempts>>
    /\ UNCHANGED <<chain, db, local, env, hist, amounts, probe, recon, broker, retry, keys>>

ClearFailedAttempts(user) ==
    /\ acm.room > 0
    /\ failed_attempts' = clear_failed_attempts(failed_attempts, user)
    /\ acm' = [Called(Op("clear_failed_attempts", user, NoKey, 0, 0, 0, "Ok")) EXCEPT
                  !.attempts[user] = 0]
    /\ UNCHANGED <<authorized_users, security_events>>
    /\ UNCHANGED <<chain, db, local, env, hist, amounts, probe, recon, broker, retry, keys>>

InitAcm == IndexerIdle /\ ReconIdle /\ BrokerIdle /\ NewAcm(MaxOps) /\ retry = NoRetry /\ KeysIdle

\* The callers: any vault and user for the authorization list and the
\* unauthorized attempts; withdrawals of u1 below, at and above ten times the
\* average, and with an average whose tenfold exceeds u64::MAX.
NextAcm ==
    \/ \E v \in Pdas, u \in Users : AuthorizeUser(v, u)
    \/ \E v \in Pdas, u \in Users : RecordUnauthorizedAttempt(u, v)
    \/ CountFailedAttempt
    \/ \E a \in {1, 10, 11}, avg \in {1, I64_MAX + 1} :
          RecordSuspiciousWithdrawal("u1", derive_vault_pda("u1"), a, avg)
    \/ RecordRapidTransactions("u1", derive_vault_pda("u1"))
    \/ GetSecurityEvents
    \/ \E m \in {Low, Medium, High, Critical} : GetAlertsBySeverity(m)
    \/ \E u \in Users : ClearFailedAttempts(u)

SpecAcm == InitAcm /\ [][NextAcm]_vars

\* Unauthorized attempts on one vault and clearing, for as many calls as the
\* blocking threshold needs.
InitBlock == IndexerIdle /\ ReconIdle /\ BrokerIdle /\ NewAcm(MaxAttempts) /\ retry = NoRetry /\ KeysIdle

NextBlock ==
    \/ \E u \in Users : RecordUnauthorizedAttempt(u, derive_vault_pda("u1"))
    \/ CountFailedAttempt
    \/ \E u \in Users : ClearFailedAttempts(u)

SpecBlock == InitBlock /\ [][NextBlock]_vars

(***************************************************************************)
(* Retry policy (error_handling.rs).  retry_with_backoff and retry_sync    *)
(* run the same loop, the one awaiting the operation and tokio's sleep,    *)
(* the other calling it and std::thread::sleep.  An error message is a     *)
(* sequence of words and separators; to_lowercase maps it word by word and *)
(* contains looks for the words of the pattern next to each other.         *)
(***************************************************************************)
MaxRetries == 3

Messages == {<<"Connection", " ", "refused">>, <<"Request", " ", "timeout">>,
             <<"Invalid", " ", "account">>, <<"RATE", " ", "LIMIT">>, <<"rate", "-", "limit">>}

to_lowercase(msg) ==
    [i \in DOMAIN msg |-> CASE msg[i] = "Connection" -> "connection"
                            [] msg[i] = "Request" -> "request"
                            [] msg[i] = "Invalid" -> "invalid"
                            [] msg[i] = "RATE" -> "rate"
                            [] msg[i] = "LIMIT" -> "limit"
                            [] OTHER -> msg[i]]

contains(msg, pattern) ==
    \E i \in 1..(Len(msg) - Len(pattern) + 1) : SubSeq(msg, i, i + Len(pattern) - 1) = pattern

is_retryable_error(error) ==
    LET error_msg == to_lowercase(error)
    IN \/ contains(error_msg, <<"timeout">>)
       \/ contains(error_msg, <<"connection">>)
       \/ contains(error_msg, <<"temporarily">>)
       \/ contains(error_msg, <<"unavailable">>)
       \/ contains(error_msg, <<"rate", " ", "limit">>)

\* The f64 nearest to num / q, cut to an integer.  An f64 holds 53 of the 64
\* bits of a u64; at the scale of the model that is IntBits - 1 bits, so from
\* 2^(IntBits - 1) on only the even integers are f64 values, and a value
\* half way between two of them goes to the one with the even mantissa.
round_f64(num, q) ==
    IF num < (2 ^ (IntBits - 1)) * q
    THEN num \div q
    ELSE LET k == num \div (2 * q)
             rest == num - (2 * q * k)
         IN IF rest < q \/ (rest = q /\ k % 2 = 0) THEN 2 * k ELSE (2 * k) + 2

\* delay = ((delay as f64) * backoff_multiplier) as u64, the cast saturating;
\* then delay.min(max_delay_ms).  The multiplier is a ratio <<p, q>>.
next_delay(delay, backoff_multiplier, max_delay_ms) ==
    LET product == round_f64(round_f64(delay, 1) * backoff_multiplier[1], backoff_multiplier[2])
        cast == IF product > U64_MAX THEN U64_MAX ELSE product
    IN IF cast < max_delay_ms THEN cast ELSE max_delay_ms

InitRetry == IndexerIdle /\ ReconIdle /\ ServicesIdle

\* retry_with_backoff(config, f) / retry_sync(config, f) is called:
\* attempt = 0, delay = config.initial_delay_ms.
RetryStart(fn, max_attempts, initial_delay_ms, max_delay_ms, backoff_multiplier) ==
    /\ retry.pc = "idle"
    /\ retry.result.kind = "none"
    /\ retry' = [NoRetry EXCEPT !.pc = "call", !.fn = fn, !.max_attempts = max_attempts,
                                !.initial_delay_ms = initial_delay_ms,
                                !.max_delay_ms = max_delay_ms,
                                !.backoff_multiplier = backoff_multiplier,
                                !.delay = initial_delay_ms]
    /\ UNCHANGED <<chain, db, local, env, hist, amounts, probe, recon, broker, access, keys>>

\* One turn of the loop up to the sleep: attempt += 1, the operation is
\* invoked, and its result (Ok, or Err with a message) is returned or the
\* loop goes on to sleep.
RetryAttempt(outcome) ==
    /\ retry.pc = "call"
    /\ LET attempt == retry.attempt + 1
           ends == \/ outcome.kind = "Ok"
                   \/ attempt >= retry.max_attempts
                   \/ ~is_retryable_error(outcome.msg)
       IN retry' = [retry EXCEPT !.attempt = attempt,
                                 !.outcomes = Append(@, outcome),
                                 !.pc = IF ends THEN "done" ELSE "sleep",
                                 !.result = IF ends THEN outcome ELSE @]
    /\ UNCHANGED <<chain, db, local, env, hist, amounts, probe, recon, broker, access, keys>>

\* The sleep of `delay` milliseconds and the new delay.
RetrySleep ==
    /\ retry.pc = "sleep"
    /\ retry' = [retry EXCEPT !.pc = "call",
                              !.sleeps = Append(@, retry.delay),
                              !.delay = next_delay(@, retry.backoff_multiplier, retry.max_delay_ms)]
    /\ UNCHANGED <<chain, db, local, env, hist, amounts, probe, recon, broker, access, keys>>

NextRetry ==
    \/ \E fn \in {"retry_with_backoff", "retry_sync"}, n \in 0..MaxRetries :
          \E d \in {0, 2, 5, I64_MAX + 2}, m \in {3, U64_MAX} :
          \E b \in {<<1, 1>>, <<2, 1>>, <<3, 2>>, <<I64_MAX + 1, 1>>} :
              RetryStart(fn, n, d, m, b)
    \/ RetryAttempt([kind |-> "Ok", msg |-> <<>>])
    \/ \E e \in Messages : RetryAttempt([kind |-> "Err", msg |-> e])
    \/ RetrySleep

SpecRetry == InitRetry /\ [][NextRetry]_vars

(***************************************************************************)
(* Transactions of one block.  getTransaction reports the block's time for *)
(* every transaction of the block, so two signatures of the watched        *)
(* program can carry the same block_time.  One indexer task, every call    *)
(* succeeds.                                                               *)
(***************************************************************************)
BlockSigs == 2

InitSameBlock ==
    /\ chain = <<>>
    /\ vaults = << >>
    /\ transactions = {}
    /\ snapshots = {}
    /\ processed = {}
    /\ tasks = {1}
    /\ room = MaxLines
    /\ budget = 0
    /\ pc = [w \in Workers |-> "idle"]
    /\ queue = [w \in Workers |-> <<>>]
    /\ cur = [w \in Workers |-> 0]
    /\ evi = [w \in Workers |-> 0]
    /\ all_vaults = [w \in Workers |-> << >>]
    /\ todo = [w \in Workers |-> {}]
    /\ applied = <<>>
    /\ snapped = <<>>
    /\ result = [w \in Workers |-> Outcome(0, "none")]
    /\ chron = << >>
    /\ amounts = Amounts
    /\ trail = <<>>
    /\ before = << >>
    /\ ReconIdle
    /\ ServicesIdle

\* The block time of a new transaction is that of the latest block or of a
\* new one.
SubmitInBlock ==
    /\ Len(chain) < BlockSigs
    /\ \A w \in tasks : pc[w] = "idle"
    /\ \E n \in 1..MaxLogs, block_time \in {1, Len(chain) + 1} :
        /\ n =< room
        /\ \E logs \in [1..n -> LogLines(block_time)] : Confirm(logs, block_time)

NextSameBlock == SubmitInBlock \/ \E w \in Workers : Step(w)

SpecSameBlock == InitSameBlock /\ [][NextSameBlock]_vars

(***************************************************************************)
(* Program derived addresses (transaction_builder.rs, derive_vault_pda).   *)
(* Pubkey::find_program_address tries the bump seeds from the highest one  *)
(* down, hashes the seeds, the bump and the program id with SHA-256, and   *)
(* returns the first digest that is not a point of the ed25519 curve, with *)
(* its bump; it panics when every bump gives a point of the curve.  The    *)
(* digest function is fixed and has no structure the caller can use: it is *)
(* some function from preimages to digests, the same at every call.        *)
(* Elsewhere in this module an address stands for its preimage             *)
(* (derive_vault_pda above); here it is the digest.                        *)
(***************************************************************************)
MaxBump == 1
MaxDerives == 3
ProgramIds == {PROGRAM_ID, "other"}
OnCurve == "curve"
Digests == {"a1", "a2", OnCurve}
Preimages == {<<"vault", u, b, p>> : u \in Users, b \in 0..MaxBump, p \in ProgramIds}
NoAddress == [address |-> "panic", bump |-> -1]

\* A variant whose bump search starts at the other end once an address has
\* been derived.
find_program_address_by_call(seeds, program_id) ==
    LET off == {b \in 0..MaxBump : sha256[<<seeds[1], seeds[2], b, program_id>>] # OnCurve}
    IN IF off = {} THEN NoAddress
       ELSE LET bump == IF derived = <<>>
                        THEN CHOOSE b \in off : \A o \in off : o =< b
                        ELSE CHOOSE b \in off : \A o \in off : b =< o
            IN [address |-> sha256[<<seeds[1], seeds[2], bump, program_id>>], bump |-> bump]

find_program_address(seeds, program_id) ==
    LET off == {b \in 0..MaxBump : sha256[<<seeds[1], seeds[2], b, program_id>>] # OnCurve}
    IN IF off = {} THEN NoAddress
       ELSE LET bump == CHOOSE b \in off : \A o \in off : o =< b
            IN [address |-> sha256[<<seeds[1], seeds[2], bump, program_id>>], bump |-> bump]

InitPda ==
    /\ IndexerIdle
    /\ ReconIdle
    /\ BrokerIdle
    /\ NewAcm(0)
    /\ retry = NoRetry
    /\ sha256 \in [Preimages -> Digests]
    /\ derived = <<>>

\* TransactionBuilder::new(program_id).derive_vault_pda(user)
DeriveVaultPda(program_id, user) ==
    /\ Len(derived) < MaxDerives
    /\ derived' = Append(derived, [program_id |-> program_id, user |-> user,
                                   returned |-> find_program_address(<<"vault", user>>, program_id)])
    /\ UNCHANGED <<chain, db, local, env, hist, amounts, probe, recon, broker, access, retry, sha256>>

NextPda == \E program_id \in ProgramIds, user \in Users : DeriveVaultPda(program_id, user)

SpecPda == InitPda /\ [][NextPda]_vars

(***************************************************************************)
(* The AccessControlManager called by several tasks at once                *)
(* (access_control.rs).  Each map is an Arc<RwLock<..>>: write().await     *)
(* waits until no guard of the lock is held, read().await until no write   *)
(* guard is held.  A guard that is a temporary of a statement is dropped   *)
(* at the end of the statement, a guard bound by let at the end of the     *)
(* method.  The entry read and the store of `*attempt_count += 1` are two  *)
(* steps, taken under the write guard of the counters.                     *)
(***************************************************************************)
MaxLockOps == 4

\* The tasks that hold a guard of the lock in the mode.
Holds(lock, mode) == {t \in Callers : <<lock, mode>> \in acm.callers[t].held}

write_admitted_always(lock) == TRUE

\* RwLock::write: no guard of the lock is out.
write_admitted(lock) == Holds(lock, "write") = {} /\ Holds(lock, "read") = {}

\* RwLock::read: no write guard of the lock is out.
read_admitted(lock) == Holds(lock, "write") = {}

keep_guard(held, lock) == held

\* The guard of the lock goes out of scope.
drop_guard(held, lock) == {g \in held : g[1] # lock}

put_failed_attempt_all(failed, user, count) == [u \in Users |-> count]

\* *attempt_count = count: the store of `+= 1` into the entry of user.
put_failed_attempt(failed, user, count) ==
    [u \in DOMAIN failed \cup {user} |-> IF u = user THEN count ELSE failed[u]]

\* The lock a method takes first, and how.
FirstLock(op) ==
    CASE op = "record_unauthorized_attempt" -> <<"security_events", "write">>
      [] op = "clear_failed_attempts" -> <<"failed_attempts", "write">>
      [] op \in {"get_failed_attempts", "is_user_blocked"} -> <<"failed_attempts", "read">>
      [] op = "get_security_events" -> <<"security_events", "read">>
      [] op = "authorize_user" -> <<"authorized_users", "write">>
      [] op = "is_authorized" -> <<"authorized_users", "read">>

\* What a method does once it has the write guard of the lock.
UnderWrite(op, lock) ==
    CASE op = "record_unauthorized_attempt" /\ lock = "security_events" -> "push"
      [] op = "record_unauthorized_attempt" /\ lock = "failed_attempts" -> "entry"
      [] op = "clear_failed_attempts" -> "remove"
      [] op = "authorize_user" -> "push_user"

InitLock == IndexerIdle /\ ReconIdle /\ BrokerIdle /\ NewAcm(MaxLockOps) /\ retry = NoRetry /\ KeysIdle

Outside == <<chain, db, local, env, hist, amounts, probe, recon, broker, retry, keys>>

\* The calls under way.
Busy == {t \in Callers : acm.callers[t] # Resting}

\* Task t calls a method; overlap is the highest number of calls that were
\* under way at once.
Invoke(t, op, user) ==
    /\ acm.room > 0
    /\ acm.callers[t] = Resting
    /\ acm' = [acm EXCEPT !.room = @ - 1, !.calls = @ + 1,
                          !.overlap = IF Cardinality(Busy) + 1 > @ THEN Cardinality(Busy) + 1 ELSE @,
                          !.cleared = IF op = "clear_failed_attempts" THEN @ \cup {user} ELSE @,
                          !.callers[t] = [Resting EXCEPT !.pc = FirstLock(op)[2], !.op = op,
                                                         !.user = user, !.lock = FirstLock(op)[1]]]
    /\ UNCHANGED <<authorized_users, security_events, failed_attempts, Outside>>

\* write().await returns the guard.
LockWrite(t) ==
    LET c == acm.callers[t]
    IN /\ c.pc = "write"
       /\ write_admitted(c.lock)
       /\ acm' = [acm EXCEPT !.callers[t] = [c EXCEPT !.pc = UnderWrite(c.op, c.lock),
                                                      !.held = @ \cup {<<c.lock, "write">>}]]
       /\ UNCHANGED <<authorized_users, security_events, failed_attempts, Outside>>

\* read().await returns the guard.
LockRead(t) ==
    LET c == acm.callers[t]
    IN /\ c.pc = "read"
       /\ read_admitted(c.lock)
       /\ acm' = [acm EXCEPT !.callers[t] = [c EXCEPT !.pc = "get",
                                                      !.held = @ \cup {<<c.lock, "read">>}]]
       /\ UNCHANGED <<authorized_users, security_events, failed_attempts, Outside>>

\* The method returns: its guards are dropped and the history takes the call.
Returns(t, returned) ==
    LET c == acm.callers[t]
    IN [acm EXCEPT !.last = Op(c.op, c.user, derive_vault_pda("u1"), 0, 0, 0, returned),
                   !.callers[t] = Resting]

\* self.security_events.write().await.push(event.clone()); the guard is a
\* temporary of this statement.  Next is failed_attempts.write().await.
Push(t) ==
    LET c == acm.callers[t]
    IN /\ c.pc = "push"
       /\ security_events' = Append(security_events,
              SecurityEvent("UnauthorizedAccessAttempt", c.user, derive_vault_pda("u1"),
                            "attempt", High))
       /\ acm' = [acm EXCEPT !.callers[t] = [c EXCEPT !.pc = "write", !.lock = "failed_attempts",
                                                      !.held = drop_guard(@, "security_events")]]
       /\ UNCHANGED <<authorized_users, failed_attempts, Outside>>

\* failed.entry(user).or_insert(0), read for `+= 1`.
Entry(t) ==
    LET c == acm.callers[t]
    IN /\ c.pc = "entry"
       /\ acm' = [acm EXCEPT !.callers[t] = [c EXCEPT !.pc = "increment",
                                    !.count = get_failed_attempts(failed_attempts, c.user)]]
       /\ UNCHANGED <<authorized_users, security_events, failed_attempts, Outside>>

\* *attempt_count += 1, the logging, Ok(()).
Increment(t) ==
    LET c == acm.callers[t]
    IN /\ c.pc = "increment"
       /\ failed_attempts' = put_failed_attempt(failed_attempts, c.user, c.count + 1)
       /\ acm' = [Returns(t, "Ok") EXCEPT !.attempts[c.user] = @ + 1]
       /\ UNCHANGED <<authorized_users, security_events, Outside>>

\* clear_failed_attempts: remove(user) under the write guard, Ok(()).
Remove(t) ==
    LET c == acm.callers[t]
    IN /\ c.pc = "remove"
       /\ failed_attempts' = clear_failed_attempts(failed_attempts, c.user)
       /\ acm' = [Returns(t, "Ok") EXCEPT !.attempts[c.user] = 0]
       /\ UNCHANGED <<authorized_users, security_events, Outside>>

\* authorize_user: the push under the write guard, Ok(()).
PushUser(t) ==
    LET c == acm.callers[t]
    IN /\ c.pc = "push_user"
       /\ authorized_users' = authorize_user(authorized_users, derive_vault_pda("u1"), c.user)
       /\ acm' = [Returns(t, "Ok") EXCEPT !.granted = @ \cup {<<derive_vault_pda("u1"), c.user>>}]
       /\ UNCHANGED <<security_events, failed_attempts, Outside>>

\* The reading methods: the value is taken under the read guard and returned.
Get(t) ==
    LET c == acm.callers[t]
        returned ==
            CASE c.op = "get_failed_attempts" -> get_failed_attempts(failed_attempts, c.user)
              [] c.op = "is_user_blocked" -> is_user_blocked(failed_attempts, c.user)
              [] c.op = "get_security_events" -> security_events
              [] c.op = "is_authorized" ->
                    is_authorized(authorized_users, derive_vault_pda("u1"), c.user)
    IN /\ c.pc = "get"
       /\ acm' = Returns(t, returned)
       /\ UNCHANGED <<authorized_users, security_events, failed_attempts, Outside>>

\* One step of task t inside a call.
Proceed(t) ==
    \/ LockWrite(t)
    \/ LockRead(t)
    \/ Push(t)
    \/ Entry(t)
    \/ Increment(t)
    \/ Remove(t)
    \/ PushUser(t)
    \/ Get(t)

NextLock ==
    \/ \E t \in Callers :
          \/ \E u \in Users : Invoke(t, "record_unauthorized_attempt", u)
          \/ \E op \in {"clear_failed_attempts", "get_failed_attempts", "is_user_blocked",
                        "get_security_events", "authorize_user", "is_authorized"} :
                Invoke(t, op, "u1")
    \/ \E t \in Callers : Proceed(t)

SpecLock == InitLock /\ [][NextLock]_vars

\* The locks are fair: a task that can get its guard again and again gets it.
MaxFairOps == 3

InitLockFair == IndexerIdle /\ ReconIdle /\ BrokerIdle /\ NewAcm(MaxFairOps) /\ retry = NoRetry /\ KeysIdle

SpecLockFair == InitLockFair /\ [][NextLock]_vars /\ \A t \in Callers : SF_vars(Proceed(t))

(***************************************************************************)
(* Properties.                                                             *)
(***************************************************************************)
\* The i-th event line of signature s.
EventAt(s, i) == EventLines(Tx(s).logs)[i].ev
HasRow(s) == \E r \in transactions : r.tx_signature = s
Malformed(s) == \E i \in 1..Len(Tx(s).logs) : Tx(s).logs[i].kind = "malformed"
InFlight(s) == \E w \in tasks : cur[w] = s
Idle == \A w \in tasks : pc[w] = "idle"

\* C1: process_transaction on a signature that is already in
\* processed_events returns at once and changes no row of vaults,
\* transactions, balance_snapshots or processed_events.
C1_ReplayIsNoOp ==
    [][\A w \in Workers :
          (pc[w] = "next" /\ Head(queue[w]) \in processed /\ queue'[w] # queue[w])
              => /\ db' = db
                 /\ pc'[w] \in {"next", "idle"}
                 /\ cur'[w] = 0
                 /\ applied' = applied /\ snapped' = snapped]_vars

\* A Withdraw signature was processed (row written, balance lowered once)
\* and a later pass replayed it.
C1_Witness ==
    \E w \in tasks : \E s \in Sigs :
        /\ result[w] = Outcome(s, "skipped")
        /\ \E r \in transactions : r.tx_signature = s /\ r.tx_type = "withdraw"
        /\ applied[s][1] = [runs |-> 1, hits |-> 1]

\* C2: a signature that is not in processed_events and that no task is
\* processing has left no side effect (no ledger change, no transactions
\* row, no snapshot row), and a signature in processed_events has had every
\* event statement run.
C2_Atomic ==
    \A s \in Sigs :
        /\ (s \notin processed /\ ~InFlight(s)) =>
              /\ \A i \in DOMAIN applied[s] : applied[s][i].hits = 0
              /\ ~HasRow(s)
              /\ snapped[s] = 0
        /\ s \in processed =>
              \A i \in DOMAIN applied[s] :
                  HasStatement(EventAt(s, i)) => applied[s][i].runs >= 1

\* Total amount of the Withdraw events for vault pda on the chain.
RECURSIVE WithdrawnIn(_, _)
WithdrawnIn(evs, pda) ==
    IF evs = <<>> THEN 0
    ELSE (IF Head(evs).type = "Withdraw" /\ Head(evs).vault = pda
          THEN Head(evs).amount ELSE 0) + WithdrawnIn(Tail(evs), pda)

RECURSIVE OnChainWithdrawn(_, _)
OnChainWithdrawn(n, pda) ==
    IF n = 0 THEN 0
    ELSE WithdrawnIn(EventsOf(n), pda) + OnChainWithdrawn(n - 1, pda)

\* C3: across passes and retries every event takes effect exactly once: no
\* vault has more withdrawn than the chain's Withdraw events for it add up
\* to, and every statement-issuing event of a processed signature has run.
C3_ExactlyOnce ==
    /\ \A p \in DOMAIN vaults :
          vaults[p].total_withdrawn =< OnChainWithdrawn(Len(chain), p)
    /\ \A s \in processed : \A i \in DOMAIN applied[s] :
          HasStatement(EventAt(s, i)) => applied[s][i].runs >= 1

\* Total amount of the Lock events for vault pda on the chain.
RECURSIVE LockedIn(_, _)
LockedIn(evs, pda) ==
    IF evs = <<>> THEN 0
    ELSE (IF Head(evs).type = "Lock" /\ Head(evs).vault = pda
          THEN Head(evs).amount ELSE 0) + LockedIn(Tail(evs), pda)

RECURSIVE OnChainLocked(_, _)
OnChainLocked(n, pda) ==
    IF n = 0 THEN 0
    ELSE LockedIn(EventsOf(n), pda) + OnChainLocked(n - 1, pda)

\* C4: with two tasks working on the same signature, its events take effect
\* at most once: no vault has more locked than the chain's Lock events for
\* it add up to.
C4_AtMostOnce ==
    \A p \in DOMAIN vaults :
        vaults[p].locked_balance =< OnChainLocked(Len(chain), p)

\* C5: every vault row has total_balance = available_balance + locked_balance.
C5_BalanceAxes ==
    \A p \in DOMAIN vaults :
        vaults[p].total_balance = vaults[p].available_balance + vaults[p].locked_balance

\* C6: every vault row has 0 <= locked_balance <= total_balance.
C6_LockedBound ==
    \A p \in DOMAIN vaults :
        0 =< vaults[p].locked_balance /\ vaults[p].locked_balance =< vaults[p].total_balance

OnChain(type) ==
    \E s \in Sigs : \E i \in 1..Len(Tx(s).logs) :
        Tx(s).logs[i].kind = "event" /\ Tx(s).logs[i].ev.type = type

\* C7: every vault row has total_deposited - total_withdrawn = total_balance
\* (stated for the chains without a Transfer, whose missing counter update
\* the design notes record).
C7_Counters ==
    ~OnChain("Transfer") =>
        \A p \in DOMAIN vaults :
            vaults[p].total_deposited - vaults[p].total_withdrawn = vaults[p].total_balance

\* C8: at every point, every tx_signature in transactions is in
\* processed_events.
C8_RecordedImpliesProcessed ==
    \A r \in transactions : r.tx_signature \in processed

Amountsof(vs) ==
    [p \in DOMAIN vs |->
        <<vs[p].total_balance, vs[p].locked_balance, vs[p].available_balance,
          vs[p].total_deposited, vs[p].total_withdrawn>>]

\* C9: once every decodable signature has been processed, each exactly once
\* and without an I/O error, the balances are those of applying the
\* signatures in chain order, whatever order the passes took.
C9_OrderIndependent ==
    (/\ Idle
     /\ budget = MaxFaults
     /\ \A s \in Sigs : ~Malformed(s) => s \in processed
     /\ \A s \in Sigs : \A i \in DOMAIN applied[s] : applied[s][i].runs =< 1)
        => Amountsof(vaults) = Amountsof(chron)

\* C10: a signature with a malformed event payload is never applied: no
\* ledger statement runs for any of its events, it gets no transactions row
\* and no snapshot row, it is never in processed_events, and every
\* process_transaction on it ends in an error.
C10_ParseErrorAborts ==
    \A s \in Sigs :
        Malformed(s) =>
            /\ s \notin processed
            /\ ~HasRow(s)
            /\ snapped[s] = 0
            /\ \A i \in DOMAIN applied[s] : applied[s][i].runs = 0
            /\ ~InFlight(s)
            /\ \A w \in tasks :
                  result[w].sig = s => result[w].outcome \in {"parse_err", "rpc_err", "db_err"}

\* A pass hit the parse error of a signature whose log has a well-formed
\* balance event before the malformed line, and a later pass hit it again.
C10_Witness ==
    \E w \in tasks : \E s \in Sigs :
        /\ result[w] = Outcome(s, "parse_err")
        /\ Len(Tx(s).logs) = 2
        /\ Tx(s).logs[1].kind = "event"
        /\ Tx(s).logs[1].ev.type \in {"Deposit", "Withdraw"}
        /\ Tx(s).logs[2].kind = "malformed"


\* The Deposit / Withdraw events of signature s that precede event i.
Recorded(s, i) ==
    {j \in 1..(i - 1) : EventAt(s, j).type \in {"Deposit", "Withdraw"}}

\* C11: the statements of a Deposit(user, amount, new_balance, timestamp)
\* applied to the existing vault of user leave a 'deposit' transactions row
\* for the signature, total_balance = available_balance = new_balance, and
\* total_deposited advanced so that total_deposited - total_withdrawn =
\* total_balance.
C11_DepositApplied ==
    [][\A w \in Workers :
          (/\ pc[w] = "balance"
           /\ EventsOf(cur[w])[evi[w]].type = "Deposit"
           /\ derive_vault_pda(EventsOf(cur[w])[evi[w]].user) \in DOMAIN vaults
           /\ applied'[cur[w]][evi[w]].runs = applied[cur[w]][evi[w]].runs + 1)
              => LET s == cur[w]
                     ev == EventsOf(s)[evi[w]]
                     row == vaults'[derive_vault_pda(ev.user)]
                 IN /\ row.total_balance = ev.new_balance
                    /\ row.available_balance = ev.new_balance
                    /\ row.total_deposited - row.total_withdrawn = row.total_balance
                    /\ \E r \in transactions' :
                          /\ r.tx_signature = s
                          /\ Recorded(s, evi[w]) = {} =>
                                r.tx_type = "deposit" /\ r.amount = ev.amount]_vars


InitializedBefore(s, i, pda) ==
    \/ \E j \in 1..(i - 1) :
          EventAt(s, j).type = "VaultInitialized" /\ EventAt(s, j).vault = pda
    \/ \E t \in 1..(s - 1) : \E j \in 1..Len(EventLines(Tx(t).logs)) :
          EventAt(t, j).type = "VaultInitialized" /\ EventAt(t, j).vault = pda

\* C13: the statement of a Transfer(from, to, amount) between two vaults the
\* chain initialized earlier lowers from's total_balance and
\* available_balance by amount and raises to's by amount, both or neither,
\* and leaves get_tvl() as it was.
C13_TransferConservesTvl ==
    [][\A w \in Workers :
          (/\ pc[w] = "event"
           /\ EventsOf(cur[w])[evi[w]].type = "Transfer"
           /\ InitializedBefore(cur[w], evi[w], EventsOf(cur[w])[evi[w]].vault)
           /\ InitializedBefore(cur[w], evi[w], EventsOf(cur[w])[evi[w]].to)
           /\ applied'[cur[w]][evi[w]].runs = applied[cur[w]][evi[w]].runs + 1)
              => LET ev == EventsOf(cur[w])[evi[w]]
                     Moved(p, d) ==
                        /\ p \in DOMAIN vaults /\ p \in DOMAIN vaults'
                        /\ vaults'[p].total_balance = vaults[p].total_balance + d
                        /\ vaults'[p].available_balance = vaults[p].available_balance + d
                 IN /\ get_tvl(vaults') = get_tvl(vaults)
                    /\ \/ Moved(ev.vault, -ev.amount) /\ Moved(ev.to, ev.amount)
                       \/ vaults' = vaults]_vars


\* C14: a vault row comes into existence only by the statement of a
\* VaultInitialized event for its PDA, no step deletes a row, and the
\* statements of Deposit, Withdraw, Lock, Unlock and Transfer events never
\* create one: the set of vault PDAs only grows, by VaultInitialized.
C14_VaultLifecycle ==
    [][/\ DOMAIN vaults \subseteq DOMAIN vaults'
       /\ \A p \in DOMAIN vaults' \ DOMAIN vaults :
             \E w \in tasks :
                /\ pc[w] = "event"
                /\ EventsOf(cur[w])[evi[w]] \in {VaultInitialized(u, t) : u \in Users, t \in Sigs}
                /\ EventsOf(cur[w])[evi[w]].vault = p
                /\ applied'[cur[w]][evi[w]].runs = applied[cur[w]][evi[w]].runs + 1]_vars

\* The statements of a Deposit and of a Lock have run for a PDA that has no
\* row, next to a vault that exists, and the PDA still has no row.
C14_Witness ==
    /\ DOMAIN vaults # {}
    /\ \A type \in {"Deposit", "Lock"} :
          \E s \in Sigs : \E i \in DOMAIN applied[s] :
             /\ EventAt(s, i).type = type
             /\ applied[s][i].runs >= 1
             /\ Targets(EventAt(s, i)) \cap DOMAIN vaults = {}


\* C15: no step lowers a vault's total_deposited or total_withdrawn, a
\* repeated VaultInitialized for the same PDA included.
C15_MonotoneCounters ==
    [][\A p \in DOMAIN vaults :
          p \in DOMAIN vaults' =>
              /\ vaults'[p].total_deposited >= vaults[p].total_deposited
              /\ vaults'[p].total_withdrawn >= vaults[p].total_withdrawn]_vars


\* C16: in every reachable state every vault's total_balance,
\* available_balance, locked_balance, total_deposited and total_withdrawn,
\* and every transactions.amount, is >= 0, for every u64 event amount.
C16_NonNegative ==
    /\ \A p \in DOMAIN vaults :
          /\ vaults[p].total_balance >= 0 /\ vaults[p].available_balance >= 0
          /\ vaults[p].locked_balance >= 0 /\ vaults[p].total_deposited >= 0
          /\ vaults[p].total_withdrawn >= 0
    /\ \A r \in transactions : r.amount >= 0


\* Amount held by the token account of the vault of a listed row.
OnChainAmount(v) == token_balance[vault_token_account(v.vault_pda)]

\* The reconciliation_logs rows the current pass inserted for vault pda.
PassEntries(pda) ==
    {j \in (rc_base + 1)..Len(reconciliation_logs) :
        reconciliation_logs[j].vault_pda = pda}

\* A reconciliation pass has ended and no call of any pass failed for a
\* reason outside the store's contents.
PassEnded == rc_pc = "idle" /\ rc_pass >= 1 /\ budget = MaxFaults

\* C17: a reconciliation pass leaves, for every vault it listed whose
\* on-chain token-account amount differs from the listed total_balance,
\* exactly one new entry with both balances, discrepancy = offchain -
\* onchain and resolved = false, and no new entry for a vault whose two
\* balances are equal (stated for on-chain amounts below 2^63).
C17_Detection ==
    (PassEnded /\ \A i \in DOMAIN rc_list : OnChainAmount(rc_list[i]) =< I64_MAX) =>
        \A i \in DOMAIN rc_list :
            LET v == rc_list[i]
                onchain == OnChainAmount(v)
                offchain == v.row.total_balance
            IN IF onchain # offchain
               THEN /\ Cardinality(PassEntries(v.vault_pda)) = 1
                    /\ \A j \in PassEntries(v.vault_pda) :
                          /\ reconciliation_logs[j].onchain_balance = onchain
                          /\ reconciliation_logs[j].offchain_balance = offchain
                          /\ reconciliation_logs[j].discrepancy = offchain - onchain
                          /\ reconciliation_logs[j].resolved = FALSE
               ELSE PassEntries(v.vault_pda) = {}


\* The reconciliation worker took the step.
ReconMoved == <<rc_pc, rc_todo, rc_pass, rc_result>>' # <<rc_pc, rc_todo, rc_pass, rc_result>>

\* C18: a step of ReconciliationWorker::run_once changes no row of vaults,
\* transactions, processed_events or balance_snapshots, and no step changes
\* or removes an existing reconciliation_logs row: rows are only appended,
\* also while an indexer pass is under way.
C18_DetectorOnly ==
    [][/\ ReconMoved => db' = db
       /\ Len(reconciliation_logs') >= Len(reconciliation_logs)
       /\ SubSeq(reconciliation_logs', 1, Len(reconciliation_logs)) = reconciliation_logs
       /\ reconciliation_logs' # reconciliation_logs => ReconMoved]_vars

\* A second pass has recorded the same vault's divergence again, in the
\* middle of an indexer pass that has already written to the vaults table.
C18_Witness ==
    /\ Len(reconciliation_logs) >= 2
    /\ reconciliation_logs[1].vault_pda = reconciliation_logs[2].vault_pda
    /\ rc_pass = 2
    /\ \E w \in tasks : pc[w] \in {"snapshot", "insert_snapshot", "mark"}
    /\ \E s \in Sigs : \E i \in DOMAIN applied[s] : applied[s][i].hits >= 1


\* C19: in a pass in which the stored token-account key of one vault does
\* not parse, the other listed vaults are still compared: each of them
\* whose key parses and whose on-chain amount differs from its listed
\* total_balance has an entry of that pass.
C19_SurvivesBadVault ==
    (PassEnded /\ \A i \in DOMAIN rc_list : OnChainAmount(rc_list[i]) =< I64_MAX) =>
        \A i \in DOMAIN rc_list :
            (/\ Pubkey_from_str(rc_list[i].row.vault_token_account).ok
             /\ OnChainAmount(rc_list[i]) # rc_list[i].row.total_balance)
                => PassEntries(rc_list[i].vault_pda) # {}


\* C20: under repeated passes, every signature of the chain whose log
\* decodes is eventually in processed_events, also when another signature
\* fails with a parse error on every pass.
C20_Progress ==
    \A s \in 1..MaxSigs : [](s \in Sigs /\ ~Malformed(s) => <>(s \in processed))

\* The calls of the CPIManager seen so far: those that returned and the one in flight.
CallsSeen == {cpi_done[i].call : i \in DOMAIN cpi_done} \cup {cpi.call}

\* C21: a call of build_lock_collateral_tx, build_unlock_collateral_tx,
\* lock_collateral or unlock_collateral whose caller_program is not in
\* authorized_programs returns an error, has fetched no blockhash, built and
\* sent no transaction and added no program_calls row; in every call the
\* authorization query comes before the blockhash fetch and the audit write.
C21_AuthorizationGate ==
    /\ \A i \in DOMAIN cpi_done :
          LET d == cpi_done[i]
          IN ~d.authorized =>
                /\ d.result # "Ok"
                /\ \A k \in DOMAIN d.call.steps : d.call.steps[k] \notin {"blockhash", "send", "audit"}
                /\ d.call.signature = ""
                /\ d.rows = d.base
    /\ \A c \in CallsSeen : \A k \in DOMAIN c.steps :
          c.steps[k] \in {"blockhash", "audit"} => \E j \in 1..(k - 1) : c.steps[j] = "auth"

\* An unregistered program was turned away by a build method and by a signed
\* method of a manager that has a payer, while the audit table holds a row.
C21_Witness ==
    /\ \E i \in DOMAIN cpi_done :
          /\ ~cpi_done[i].authorized
          /\ cpi_done[i].result = "unauthorized CPI caller"
          /\ ~Signed(cpi_done[i].call.op)
    /\ \E i \in DOMAIN cpi_done :
          /\ cpi_done[i].authorized
          /\ cpi_done[i].result = "Ok"
          /\ cpi_done[i].rows = cpi_done[i].base + 1

\* C22: every build_lock_collateral_tx / build_unlock_collateral_tx call that
\* returned Ok has a program_calls row of its own recording its caller_program,
\* vault_pda, instruction and amount: n successful requests, n rows.
C22_AuditRowPerRequest ==
    LET built == {i \in DOMAIN cpi_done : ~Signed(cpi_done[i].call.op) /\ cpi_done[i].result = "Ok"}
        Records(j, i) == /\ program_calls[j].caller_program = cpi_done[i].call.caller_program
                         /\ program_calls[j].vault_pda = cpi_done[i].call.vault_pda
                         /\ program_calls[j].instruction = Instruction(cpi_done[i].call.op)
                         /\ program_calls[j].amount = cpi_done[i].call.amount
    IN \E f \in [built -> DOMAIN program_calls] :
          /\ \A i \in built : Records(f[i], i)
          /\ \A i \in built : \A k \in built : f[i] = f[k] => i = k

\* C23: once lock_collateral / unlock_collateral has returned, a transaction
\* it sent and the network confirmed has a program_calls row under its
\* signature with the instruction 'lock' / 'unlock'; a call on a manager
\* without a payer fails before any query, RPC call or audit write.
C23_SignedAudited ==
    /\ \A i \in DOMAIN cpi_done :
          LET d == cpi_done[i]
          IN Signed(d.call.op) /\ d.call.signature \in cpi_sent =>
                \E j \in DOMAIN program_calls :
                    /\ program_calls[j].tx_signature = d.call.signature
                    /\ program_calls[j].instruction = Instruction(d.call.op)
    /\ \A i \in DOMAIN cpi_done :
          LET d == cpi_done[i]
          IN Signed(d.call.op) /\ ~d.payer =>
                d.result # "Ok" /\ d.call.steps = <<>> /\ d.rows = d.base

\* C24: is_authorized(v, u) is true exactly when authorize_user(v, u) was
\* called earlier with that vault and that user: an authorization on one
\* vault gives none on another, repeating it changes nothing, and no
\* operation takes it back.
C24_Containment ==
    \A v \in Pdas : \A u \in Users :
        is_authorized(authorized_users, v, u) <=> <<v, u>> \in acm.granted

\* u1 was authorized twice on its own vault and on no other, and the manager
\* has recorded events since.
C24_Witness ==
    /\ authorized_users = (derive_vault_pda("u1") :> <<"u1", "u1">>)
    /\ security_events # <<>>
    /\ acm.last.name # "authorize_user"

\* C25: a record_unauthorized_attempt(user, vault, details) call appends one
\* UnauthorizedAccessAttempt event of severity High for that user and vault
\* and adds 1 to failed_attempts[user] (0 if absent); no other user's counter
\* and no authorization changes.
C25_UnauthorizedAttempt ==
    [][/\ (acm'.calls = acm.calls + 1 /\ acm'.last.name = "record_unauthorized_attempt") =>
             /\ security_events' = Append(security_events,
                    [event_type |-> "UnauthorizedAccessAttempt", user |-> acm'.last.user,
                     vault |-> acm'.last.vault, timestamp |-> NowTs, details |-> "attempt",
                     severity |-> High])
             /\ acm'.pending = acm'.last
             /\ UNCHANGED <<failed_attempts, authorized_users>>
       /\ (acm.pending # NoOp /\ acm'.pending = NoOp) =>
             /\ get_failed_attempts(failed_attempts', acm.pending.user)
                   = get_failed_attempts(failed_attempts, acm.pending.user) + 1
             /\ \A u \in Users \ {acm.pending.user} :
                   /\ u \in DOMAIN failed_attempts' <=> u \in DOMAIN failed_attempts
                   /\ get_failed_attempts(failed_attempts', u) = get_failed_attempts(failed_attempts, u)
             /\ UNCHANGED <<security_events, authorized_users>>]_vars

\* Attempts of both users have been counted, two of them for u1, next to an
\* authorization.
C25_Witness ==
    /\ acm.pending = NoOp
    /\ DOMAIN failed_attempts = Users
    /\ failed_attempts["u1"] = 2
    /\ failed_attempts["u2"] = 1
    /\ Len(security_events) = 3
    /\ authorized_users # << >>

\* C26: is_user_blocked(u) holds exactly when u has 5 or more failed attempts,
\* the failed attempts of u being the record_unauthorized_attempt calls for u
\* that returned since the last clear_failed_attempts(u): 3 or 4 do not block,
\* 5 do, and clearing u returns u to 0 and unblocked and leaves the others.
C26_BlockingThreshold ==
    \A u \in Users :
        /\ get_failed_attempts(failed_attempts, u) = acm.attempts[u]
        /\ is_user_blocked(failed_attempts, u) <=> acm.attempts[u] >= 5

\* u1 was blocked by five attempts and has just been cleared; the attempt of
\* u2 is still counted.
C26_Witness ==
    /\ acm.last = Op("clear_failed_attempts", "u1", NoKey, 0, 0, 0, "Ok")
    /\ Cardinality({i \in DOMAIN security_events : security_events[i].user = "u1"}) = 5
    /\ acm.pending = NoOp
    /\ ~is_user_blocked(failed_attempts, "u1")
    /\ get_failed_attempts(failed_attempts, "u2") = 1

\* C27: record_suspicious_withdrawal(user, vault, amount, avg) records one
\* event, Critical when amount > avg * 10 over the integers and Medium
\* otherwise, for every u64 amount and avg.
C27_WithdrawalSeverity ==
    /\ \A i \in DOMAIN security_events :
          LET e == security_events[i]
          IN e.event_type = "SuspiciousWithdrawal" =>
                e.severity = IF e.details[1] > e.details[2] * 10 THEN Critical ELSE Medium
    /\ acm.last.name = "record_suspicious_withdrawal" =>
          /\ security_events # <<>>
          /\ security_events[Len(security_events)].event_type = "SuspiciousWithdrawal"
          /\ security_events[Len(security_events)].details
                = <<acm.last.amount, acm.last.average_withdrawal>>

\* C28: get_alerts_by_severity(min) returns the recorded events of severity
\* min or higher (Low < Medium < High < Critical), in recording order; an
\* event of record_rapid_transactions is High.
C28_SeverityFilter ==
    /\ acm.last.name = "get_alerts_by_severity" =>
          LET kept == {i \in DOMAIN security_events :
                          security_events[i].severity >= acm.last.min_severity}
              Nth(k) == CHOOSE i \in kept : Cardinality({j \in kept : j < i}) = k - 1
          IN /\ Len(acm.last.returned) = Cardinality(kept)
             /\ \A k \in 1..Cardinality(kept) : acm.last.returned[k] = security_events[Nth(k)]
    /\ \A i \in DOMAIN security_events :
          security_events[i].event_type = "RapidTransactionSequence" =>
              security_events[i].severity = High /\ High < Critical

\* The log holds a Medium, a Critical and a rapid-transactions event, and
\* the alerts of severity High or more were just read.
C28_Witness ==
    /\ acm.last.name = "get_alerts_by_severity"
    /\ acm.last.min_severity = High
    /\ \E i, j, k \in DOMAIN security_events :
          /\ security_events[i].severity = Medium
          /\ security_events[j].event_type = "RapidTransactionSequence"
          /\ security_events[k].severity = Critical
          /\ j < k
    /\ Len(acm.last.returned) = 2

\* C29: every operation leaves the events already in the log in place; a
\* record_* call adds one event at the end, every other operation none; a list
\* a query returned is not altered by later operations.
C29_AppendOnly ==
    [][LET called == acm'.calls = acm.calls + 1
           records == called /\ acm'.last.name \in {"record_unauthorized_attempt",
                          "record_suspicious_withdrawal", "record_rapid_transactions"}
           reads == called /\ acm'.last.name \in {"get_security_events",
                                                  "get_alerts_by_severity"}
       IN /\ Len(security_events') >= Len(security_events)
          /\ SubSeq(security_events', 1, Len(security_events)) = security_events
          /\ Len(security_events') = Len(security_events) + (IF records THEN 1 ELSE 0)
          /\ ~reads => acm'.got = acm.got
          /\ (called /\ acm'.last.name = "get_security_events") => acm'.got = security_events]_vars

\* The error messages of the model that hold one of 'timeout', 'connection',
\* 'temporarily', 'unavailable', 'rate limit' when lower-cased.
Transient ==
    {[kind |-> "Err", msg |-> e] : e \in {<<"Connection", " ", "refused">>,
                                          <<"Request", " ", "timeout">>,
                                          <<"RATE", " ", "LIMIT">>}}

\* C30: retry_with_backoff and retry_sync invoke the operation at most
\* max_attempts times, whatever the configuration; nothing is invoked after
\* an Ok or after an error that is not retryable, and such an error is not
\* slept on; a retryable error is retried until max_attempts invocations have
\* been made, and the call returns the first Ok or the last error.
C30_RetryPolicy ==
    LET n == Len(retry.outcomes)
    IN /\ n =< retry.max_attempts
       /\ \A i \in 1..(n - 1) : retry.outcomes[i] \in Transient
       /\ Len(retry.sleeps) = IF retry.pc \in {"sleep", "done"} /\ n > 0 THEN n - 1
                              ELSE IF retry.pc = "call" THEN n ELSE 0
       /\ retry.pc = "sleep" => retry.outcomes[n] \in Transient /\ n < retry.max_attempts
       /\ retry.pc = "done" =>
             /\ retry.result = retry.outcomes[n]
             /\ retry.outcomes[n] \in Transient => n = retry.max_attempts

\* initial_delay_ms * multiplier^(k - 1) over the integers.
RECURSIVE Grown(_, _, _)
Grown(delay, multiplier, k) == IF k = 1 THEN delay ELSE Grown(delay, multiplier, k - 1) * multiplier

\* C31: with an integer multiplier the wait before the k-th retry is
\* min(initial_delay_ms * multiplier^(k-1), max_delay_ms); no wait exceeds
\* max_delay_ms, the first one included; with a multiplier of 1 or more the
\* waits never decrease.
C31_BoundedBackoff ==
    \A k \in DOMAIN retry.sleeps :
        LET p == retry.backoff_multiplier[1]
            q == retry.backoff_multiplier[2]
            grown == Grown(retry.initial_delay_ms, p, k)
        IN /\ q = 1 => retry.sleeps[k] = IF grown < retry.max_delay_ms THEN grown
                                           ELSE retry.max_delay_ms
           /\ retry.sleeps[k] =< retry.max_delay_ms
           /\ (k > 1 /\ p >= q) => retry.sleeps[k] >= retry.sleeps[k - 1]

\* rows has a row of vault pda at time ts that holds the balances of v.
SnapshotOf(rows, pda, ts, v) ==
    \E r \in rows :
        /\ r.vault_pda = pda
        /\ r.snapshot_time = ts
        /\ r.total_balance = v.total_balance
        /\ r.locked_balance = v.locked_balance
        /\ r.available_balance = v.available_balance

\* C32: when a signature is marked processed, balance_snapshots holds for
\* every existing vault a row at (vault, block time of the transaction) with
\* the balances the vault has right after the signature's events, also when
\* an earlier signature of the same block time was processed before; and
\* there is never more than one row per (vault_pda, snapshot_time).
C32_SnapshotPerSignature ==
    [][/\ \A s \in processed' \ processed : \A p \in DOMAIN vaults' :
              SnapshotOf(snapshots', p, from_timestamp(Tx(s).block_time), vaults'[p])
       /\ \A r1, r2 \in snapshots' :
              (r1.vault_pda = r2.vault_pda /\ r1.snapshot_time = r2.snapshot_time) => r1 = r2]_vars

\* Two calls of derive_vault_pda with the same owner and program returned the
\* same address and bump.
Deterministic ==
    \A i, j \in DOMAIN derived :
        (derived[i].user = derived[j].user /\ derived[i].program_id = derived[j].program_id)
            => derived[i].returned = derived[j].returned

\* Two calls for different owners under one program that both returned an
\* address.
OtherOwner(i, j) ==
    /\ derived[i].user # derived[j].user
    /\ derived[i].program_id = derived[j].program_id
    /\ derived[i].returned # NoAddress
    /\ derived[j].returned # NoAddress

\* The SHA-256 digests of the seeds of the two owners collide at some bumps.
Collide(program_id, user1, user2) ==
    \E b1, b2 \in 0..MaxBump :
        sha256[<<"vault", user1, b1, program_id>>] = sha256[<<"vault", user2, b2, program_id>>]

C34_TransactionsImmutable ==
    [][/\ \A r1, r2 \in transactions' : r1.tx_signature = r2.tx_signature => r1 = r2
       /\ transactions \subseteq transactions']_vars

\* A task has just issued the insert for a Deposit or Withdraw of a signature
\* whose stored row came from another event: the insert was dropped.
C34_Witness ==
    \E w \in Workers :
        /\ pc[w] = "balance"
        /\ \E r \in transactions :
              /\ r.tx_signature = cur[w]
              /\ \/ r.amount # AsI64(EventsOf(cur[w])[evi[w]].amount)
                 \/ r.user_pubkey # EventsOf(cur[w])[evi[w]].user
                 \/ r.tx_type # (IF EventsOf(cur[w])[evi[w]].type = "Deposit" THEN "deposit" ELSE "withdraw")

\* C35: a signature is marked processed only after every decoded event of it
\* has taken effect: no signature is in processed_events while one of its
\* balance-changing events has changed no vault row (its target row did not
\* exist when its statement ran).
C35_ProcessedAfterEffects ==
    \A s \in processed : \A i \in DOMAIN EventsOf(s) :
        HasStatement(EventsOf(s)[i]) => applied[s][i].hits >= 1

\* The columns an existing row keeps under VaultInitialized.
Identity(v) ==
    <<v.owner_pubkey, v.mint, v.vault_token_account, v.program_id, v.network, v.created_at>>

\* Task w runs the vaults statement of a VaultInitialized event in this step.
RunsVaultInitialized(w) ==
    /\ pc[w] = "event"
    /\ EventsOf(cur[w])[evi[w]].type = "VaultInitialized"
    /\ applied'[cur[w]][evi[w]].runs = applied[cur[w]][evi[w]].runs + 1

\* C36: a VaultInitialized event for a PDA that already has a row sets the
\* five amounts of the row to 0 and last_synced_at to the event time, leaves
\* owner_pubkey, mint, vault_token_account, program_id, network and
\* created_at as they were, and adds no row.
C36_Reinitialize ==
    [][\A w \in Workers :
          (RunsVaultInitialized(w) /\ EventsOf(cur[w])[evi[w]].vault \in DOMAIN vaults)
          => LET ev == EventsOf(cur[w])[evi[w]]
                 old == vaults[ev.vault]
                 new == vaults'[ev.vault]
             IN /\ DOMAIN vaults' = DOMAIN vaults
                /\ \A p \in DOMAIN vaults \ {ev.vault} : vaults'[p] = vaults[p]
                /\ new.total_balance = 0 /\ new.locked_balance = 0
                /\ new.available_balance = 0 /\ new.total_deposited = 0
                /\ new.total_withdrawn = 0
                /\ new.last_synced_at = from_timestamp(ev.timestamp)
                /\ Identity(new) = Identity(old)]_vars

\* A VaultInitialized event has run on a row that existed before it: the row
\* has the event's time as last_synced_at and another created_at.
C36_Witness ==
    \E p \in DOMAIN vaults : \E s \in Sigs : \E i \in DOMAIN EventsOf(s) :
        /\ EventsOf(s)[i].type = "VaultInitialized"
        /\ EventsOf(s)[i].vault = p
        /\ applied[s][i].runs >= 1
        /\ vaults[p].last_synced_at = from_timestamp(EventsOf(s)[i].timestamp)
        /\ vaults[p].created_at # vaults[p].last_synced_at
        /\ vaults[p].total_balance = 0

\* The transactions rows of signature s.
RowsOf(s) == {r \in transactions : r.tx_signature = s}

\* The Deposit and Withdraw events of signature s, by their place in the log.
Recordable(s) == {i \in DOMAIN EventsOf(s) : EventsOf(s)[i].type \in {"Deposit", "Withdraw"}}

\* The transactions row process_transaction builds for event i of signature s.
RowOf(s, i) ==
    LET ev == EventsOf(s)[i]
    IN CHOOSE r \in insert_simple({},
                        IF ev.type = "Deposit" THEN derive_vault_pda(ev.user) ELSE ev.vault,
                        ev.user, s,
                        IF ev.type = "Deposit" THEN "deposit" ELSE "withdraw",
                        AsI64(ev.amount), Tx(s).slot, Tx(s).block_time) : TRUE

\* C37: of the Deposit and Withdraw events of one signature only the first in
\* log order produces a transactions row, and a signature without such an
\* event (Lock, Unlock, Transfer, VaultInitialized only) has no row; the
\* vaults statement of every one of those events still runs, with its effect
\* on the ledger, before the signature is marked processed.
C37_OneRecordPerSignature ==
    [][/\ \A s \in Sigs :
            IF Recordable(s) = {} THEN RowsOf(s)' = {}
            ELSE LET first == CHOOSE i \in Recordable(s) : \A j \in Recordable(s) : i =< j
                 IN /\ RowsOf(s)' \subseteq {RowOf(s, first)}
                    /\ s \in processed' =>
                          /\ RowsOf(s)' = {RowOf(s, first)}
                          /\ \A i \in Recordable(s) : applied'[s][i].runs >= 1
       /\ \A w \in Workers :
            (pc[w] = "balance" /\ applied'[cur[w]][evi[w]].runs = applied[cur[w]][evi[w]].runs + 1)
                => vaults' = LedgerEffect(vaults, EventsOf(cur[w])[evi[w]])]_vars

\* A processed signature with two Deposit / Withdraw events that build
\* different rows, both applied to an existing vault row.
C37_Witness ==
    \E s \in processed : \E i, j \in Recordable(s) :
        /\ i < j
        /\ RowOf(s, i) # RowOf(s, j)
        /\ applied[s][i].hits >= 1
        /\ applied[s][j].hits >= 1
        /\ RowsOf(s) = {RowOf(s, i)}

\* The UnauthorizedAccessAttempt events of user in the log.
AttemptEvents(user) ==
    {i \in DOMAIN security_events :
        /\ security_events[i].event_type = "UnauthorizedAccessAttempt"
        /\ security_events[i].user = user}

\* C38: under every interleaving of concurrent record_unauthorized_attempt,
\* clear_failed_attempts and reading calls, the failed-attempt counter of a
\* user is at most the number of UnauthorizedAccessAttempt events of that
\* user in security_events.
C38_CounterBelowEvents ==
    \A u \in Users :
        get_failed_attempts(failed_attempts, u) =< Cardinality(AttemptEvents(u))

\* A call for u1 has pushed its event and waits for the lock of the counters,
\* which a clear_failed_attempts for u1 holds; an earlier attempt is counted.
C38_Witness ==
    /\ get_failed_attempts(failed_attempts, "u1") = 1
    /\ \E t1, t2 \in Callers :
          /\ acm.callers[t1].op = "record_unauthorized_attempt"
          /\ acm.callers[t1].user = "u1"
          /\ acm.callers[t1].pc = "write"
          /\ acm.callers[t1].lock = "failed_attempts"
          /\ acm.callers[t2].pc = "remove"

\* The calls of record_unauthorized_attempt for user that are under way.
Recording(user) ==
    {t \in Callers : /\ acm.callers[t].op = "record_unauthorized_attempt"
                     /\ acm.callers[t].user = user}

\* C39: when N concurrent record_unauthorized_attempt calls for one user have
\* all returned and no clear_failed_attempts for the user was called,
\* get_failed_attempts(user) is N and the log holds exactly N events of the
\* user: no increment and no event is lost.
C39_NoLostAttempt ==
    \A u \in Users :
        (Recording(u) = {} /\ u \notin acm.cleared)
            => /\ get_failed_attempts(failed_attempts, u) = acm.attempts[u]
               /\ Cardinality(AttemptEvents(u)) = acm.attempts[u]

\* Three calls for u1 were under way at once and all three have returned.
C39_Witness ==
    /\ acm.attempts["u1"] = MaxTasks
    /\ acm.overlap = MaxTasks
    /\ Recording("u1") = {}
    /\ "u1" \notin acm.cleared
    /\ acm.calls = MaxTasks

\* C40: no call holds more than one of the three locks at a time, so the
\* calls cannot deadlock, and with fair locks every call that was started
\* returns.
C40_OneLockAndProgress ==
    /\ [](\A t \in Callers : Cardinality(acm.callers[t].held) =< 1)
    /\ [](Busy # {} => ENABLED (\E t \in Callers : Proceed(t)))
    /\ \A t \in Callers : (acm.callers[t] # Resting) ~> (acm.callers[t] = Resting)

\* A call waits for the lock of the counters, which another call holds, after
\* having held and dropped the lock of the log.
C40_Witness ==
    \E t1, t2 \in Callers :
        /\ acm.callers[t1].pc = "write"
        /\ acm.callers[t1].lock = "failed_attempts"
        /\ acm.callers[t1].held = {}
        /\ acm.callers[t2].held = {<<"failed_attempts", "write">>}
        /\ \E t3 \in Callers : acm.callers[t3].held = {<<"security_events", "read">>}

=============================================================================
